---- MODULE Spec2Model ----
(***************************************************************************)
(* NexusTrader: order lifecycle FSM and order store, OKX private connector *)
(* REST operations, OKX position and balance normalisation, the            *)
(* reconnecting WebSocket client and its listener, the OKX EMS queues and  *)
(* the strategy's submission helpers, the REST API client's session and    *)
(* error mapping, InstrumentId.from_str, the public connector's market     *)
(* data frames, message handlers and candle pagination, the strategy's     *)
(* bus registration, the TWAP engine, the order registry, the WebSocket    *)
(* client's connect() calls against its supervisor tasks, the Binance REST *)
(* client's base URLs, the private connector's channel frames, and         *)
(* request_klines against a venue that holds a finite set of candles.      *)
(* Each subsystem has its own specification over the shared variables;     *)
(* the variables of the other subsystems stay at rest.                     *)
(***************************************************************************)
EXTENDS Integers, Sequences, FiniteSets, TLC

VARIABLES
    \* ---- order store (cache) ----
    mem_orders,              \* uuid -> stored Order record, or NoOrder
    mem_open_orders,         \* open-order index by account: set of uuids
    mem_symbol_open_orders,  \* open-order index by symbol: set of uuids
    status_path,             \* uuid -> sequence of statuses the order went through
    last_attempt,            \* the last status change a handler attempted (its log line)
    \* ---- private connector: one outgoing operation at a time ----
    has_limiter,             \* the connector was built with a rate limit
    call,                    \* the operation in progress: its arguments and position
    posts,                   \* POST requests this call has issued to the venue
    result,                  \* what the call gave its caller
    \* ---- positions ----
    mem_positions,           \* symbol -> the Position last applied to the cache
    pos_op,                  \* the operation that applied positions last
    pos_source,              \* per symbol, the element its position was built from
    \* ---- WebSocket client ----
    ws_transport,            \* self._transport and self._listener: "None" or "T"
    ws_alive,                \* the connection under the transport is up
    ws_opened_by,            \* who opened the last connection: connect() or the supervisor
    ws_subscriptions,        \* keys of self._subscriptions in insertion order
    ws_sent,                 \* subscribe frames written to the last connection, in order
    ws_pc,                   \* position of the supervisor task _connection_handler
    ws_iter,                 \* the dict iterator of _resubscribe: next index, size at start
    sub_call,                \* the caller's subscribe call: position, channel, outcome
    ws_drops,                \* disconnects so far (peer, keepalive or disconnect())
    ws_close_seen,           \* the listener handled a CLOSE frame on this connection
    ws_handled,              \* the last frame the listener saw and what it did with it
    specific_ping_msg,       \* the client's application-level ping payload, or "None"
    \* ---- balances ----
    mem_account_balance,     \* asset -> the Balance stored for the account type
    bal_update,              \* the balances of the last update applied, in order
    \* ---- execution management system (OKX) and the strategy's helpers ----
    _private_connectors,     \* account types a private connector exists for
    ems_built,               \* the queues were built and the primary account type set
    _order_submit_queues,    \* account type -> queue of OrderSubmit (a partial mapping)
    _okx_account_type,       \* the primary account type, or "None"
    next_uuid,               \* the next uuid UUID4() gives
    helper_call,             \* the last call of a submission helper and how it ended
    \* ---- REST API client ----
    _session,                \* self._session: the number of the session held, or 0 for None
    sessions,                \* the sessions created so far, in order: "open" or "closed"
    close_pc,                \* close_session: "idle", or "closing" while session.close() is awaited
    fetch,                   \* the last _fetch: whether it created a session and how it ended
    raised,                  \* the last raise_error call: its arguments and what it raised
    \* ---- InstrumentId.from_str ----
    symbol_parts,            \* the parts the symbol given to from_str was written from
    instrument_id,           \* the InstrumentId from_str gave, or what it raised
    \* ---- OKX public connector: market data frames ----
    ws_frames,               \* the TEXT frames that arrived on the connection, in order
    ws_delivered,            \* how many of them the listener has been called with
    bus,                     \* the messages published on the bus, in order
    \* ---- OKX public connector: _request_klines ----
    kl_limit,                \* limit of the call in progress
    kl_end_time_ms,          \* end_time_ms of the call (sys.maxsize without an end_time)
    kl_start_time,           \* start_time, the cursor of the next request (-1 for None)
    kl_batch,                \* the last batch received and the cursor computed from it
    kl_pc,                   \* "idle", "requesting" (a request is out) or "returned"
    \* ---- Strategy._init_core and the message bus ----
    _initialized,            \* self._initialized of the strategy
    bus_endpoints,           \* the bus's endpoints: pairs of endpoint and handler's owner
    bus_subscriptions,       \* topic -> number of subscriptions of the strategy's handler
    bus_other_subscribers,   \* topics another component has subscribed to
    init_core_calls,         \* calls of _init_core so far
    init_core_raised,        \* what the last _init_core call raised, or "none"
    \* ---- TWAP engine of the EMS ----
    algo,                    \* the parent AlgoOrder: its submit, its slices and its status
    algo_children,           \* the statuses of the child orders, in the order of their submission
    algo_event,              \* what the engine did last
    \* ---- order registry and the race of a WS update with the POST response ----
    reg_post,                \* submit uuid -> where its create_order POST stands
    venue_owner,             \* venue order id -> the submit whose POST created it, 0 when unused
    uuid_to_order_id,        \* registry: uuid -> venue order id, 0 when none
    order_id_to_uuid,        \* registry: venue order id -> uuid, 0 when none
    reg_lookup,              \* venue order id -> the lookup of its last WS order update
    reg_synthesized,         \* local uuids synthesized for unknown venue ids so far
    \* ---- OKX public connector: the two streams' message handlers ----
    pub_stream,              \* the connection the last frame came on: public or business
    pub_frame,               \* the last frame handed to a message handler
    pub_events,              \* what the handler published for it, in order
    \* ---- WebSocket client: connect() calls and supervisor tasks ----
    sup_transport,           \* self._transport: 0 for None, else the transport's number
    sup_open,                \* the transports whose connection is open
    sup_created,             \* transports ws_connect has returned so far
    sup_tasks,               \* the _connection_handler tasks created, each with its position
    sup_connect,             \* position of a connect() call: idle, or awaiting _connect()
    sup_closed_by_user,      \* disconnect() was called from outside and connect() not since
    \* ---- Binance REST client: base URL of a request ----
    url_testnet,             \* self._testnet, as the client was constructed
    url_requests,            \* the requests made so far: account type and the base URL chosen
    \* ---- OKX private connector: frames of the orders, positions and account channels ----
    priv_frames,             \* the channel frames handled so far, in order
    priv_applied,            \* what reached the bus or the cache: frame, item, channel
    \* ---- OKX public connector: request_klines against a venue ----
    kw_venue,                \* the venue: its candles' start times, which candles a page holds and in what order
    kw_limit,                \* limit of the call
    kw_end_time,             \* end_time of the call, passed as after (-1 for None)
    kw_first_start_time,     \* start_time the call was made with (-1 for None)
    kw_start_time,           \* start_time, passed as before: the cursor of the request that is out
    kw_klines,               \* klines, the last batch received
    kw_all_klines,           \* all_klines, the start times of the candles collected so far
    kw_pc                    \* "idle", "requesting" (a request is out) or "returned"

orderVars == <<mem_orders, mem_open_orders, mem_symbol_open_orders, status_path, last_attempt>>

connVars == <<has_limiter, call, posts, result>>

posVars == <<mem_positions, pos_op, pos_source>>

wsVars == <<ws_transport, ws_alive, ws_opened_by, ws_subscriptions, ws_sent, ws_pc,
            ws_iter, sub_call, ws_drops, ws_close_seen, ws_handled, specific_ping_msg>>

balVars == <<mem_account_balance, bal_update>>

emsVars == <<_private_connectors, ems_built, _order_submit_queues, _okx_account_type,
             next_uuid, helper_call>>

apiVars == <<_session, sessions, close_pc, fetch, raised>>

instVars == <<symbol_parts, instrument_id>>

busVars == <<ws_frames, ws_delivered, bus>>

klVars == <<kl_limit, kl_end_time_ms, kl_start_time, kl_batch, kl_pc>>

coreVars == <<_initialized, bus_endpoints, bus_subscriptions, bus_other_subscribers, init_core_calls, init_core_raised>>

twapVars == <<algo, algo_children, algo_event>>

regVars == <<reg_post, venue_owner, uuid_to_order_id, order_id_to_uuid, reg_lookup, reg_synthesized>>

pubVars == <<pub_stream, pub_frame, pub_events>>

supVars == <<sup_transport, sup_open, sup_created, sup_tasks, sup_connect, sup_closed_by_user>>

urlVars == <<url_testnet, url_requests>>

privVars == <<priv_frames, priv_applied>>

kwVars == <<kw_venue, kw_limit, kw_end_time, kw_first_start_time, kw_start_time, kw_klines, kw_all_klines, kw_pc>>

vars == <<orderVars, connVars, posVars, wsVars, balVars, emsVars, apiVars, instVars, busVars, klVars, coreVars, twapVars, regVars, pubVars, supVars, urlVars, privVars, kwVars>>

\* What the actions of one subsystem leave alone.
notOrderVars == <<connVars, posVars, wsVars, balVars, emsVars, apiVars, instVars, busVars, klVars, coreVars, twapVars, regVars, pubVars, supVars, urlVars, privVars, kwVars>>
notConnVars == <<orderVars, posVars, wsVars, balVars, emsVars, apiVars, instVars, busVars, klVars, coreVars, twapVars, regVars, pubVars, supVars, urlVars, privVars, kwVars>>
notPosVars == <<orderVars, connVars, wsVars, balVars, emsVars, apiVars, instVars, busVars, klVars, coreVars, twapVars, regVars, pubVars, supVars, urlVars, privVars, kwVars>>
notWsVars == <<orderVars, connVars, posVars, balVars, emsVars, specific_ping_msg, apiVars, instVars, busVars, klVars, coreVars, twapVars, regVars, pubVars, supVars, urlVars, privVars, kwVars>>
notEmsVars == <<orderVars, connVars, posVars, wsVars, balVars, apiVars, instVars, busVars, klVars, coreVars, twapVars, regVars, pubVars, supVars, urlVars, privVars, kwVars>>
notBalVars == <<orderVars, connVars, posVars, wsVars, emsVars, apiVars, instVars, busVars, klVars, coreVars, twapVars, regVars, pubVars, supVars, urlVars, privVars, kwVars>>
notApiVars == <<orderVars, connVars, posVars, wsVars, balVars, emsVars, instVars, busVars, klVars, coreVars, twapVars, regVars, pubVars, supVars, urlVars, privVars, kwVars>>
notInstVars == <<orderVars, connVars, posVars, wsVars, balVars, emsVars, apiVars, busVars, klVars, coreVars, twapVars, regVars, pubVars, supVars, urlVars, privVars, kwVars>>
notBusVars == <<orderVars, connVars, posVars, wsVars, balVars, emsVars, apiVars, instVars, klVars, coreVars, twapVars, regVars, pubVars, supVars, urlVars, privVars, kwVars>>
notKlVars == <<orderVars, connVars, posVars, wsVars, balVars, emsVars, apiVars, instVars, busVars, coreVars, twapVars, regVars, pubVars, supVars, urlVars, privVars, kwVars>>
notCoreVars == <<orderVars, connVars, posVars, wsVars, balVars, emsVars, apiVars, instVars, busVars, klVars, twapVars, regVars, pubVars, supVars, urlVars, privVars, kwVars>>
notTwapVars == <<orderVars, connVars, posVars, wsVars, balVars, emsVars, apiVars, instVars, busVars, klVars, coreVars, regVars, pubVars, supVars, urlVars, privVars, kwVars>>
notRegVars == <<orderVars, connVars, posVars, wsVars, balVars, emsVars, apiVars, instVars, busVars, klVars, coreVars, twapVars, pubVars, supVars, urlVars, privVars, kwVars>>
notPubVars == <<orderVars, connVars, posVars, wsVars, balVars, emsVars, apiVars, instVars, busVars, klVars, coreVars, twapVars, regVars, supVars, urlVars, privVars, kwVars>>
notSupVars == <<orderVars, connVars, posVars, wsVars, balVars, emsVars, apiVars, instVars, busVars, klVars, coreVars, twapVars, regVars, pubVars, urlVars, privVars, kwVars>>
notUrlVars == <<orderVars, connVars, posVars, wsVars, balVars, emsVars, apiVars, instVars, busVars, klVars, coreVars, twapVars, regVars, pubVars, supVars, privVars, kwVars>>
notPrivVars == <<orderVars, connVars, posVars, wsVars, balVars, emsVars, apiVars, instVars, busVars, klVars, coreVars, twapVars, regVars, pubVars, supVars, urlVars, kwVars>>
notKwVars == <<orderVars, connVars, posVars, wsVars, balVars, emsVars, apiVars, instVars, busVars, klVars, coreVars, twapVars, regVars, pubVars, supVars, urlVars, privVars>>

\* ------------------------------------------------------------------ bounds
MaxPath == 4      \* statuses recorded per order, INITIALIZED included
MaxFill == 1      \* filled amounts a venue update can report: 0..MaxFill
MaxPos == 1       \* the venue's "pos" field ranges over -MaxPos..MaxPos
MaxDrops == 2     \* disconnects of the WebSocket that are followed
MaxBal == 1       \* free amounts an account update reports: 0..MaxBal
MaxSubmits == 2   \* submits that are followed on the queues of the EMS
MaxSessions == 2  \* HTTP sessions the API client creates that are followed
MaxFrames == 2    \* market data frames that arrive on the public connection
MaxTime == 3      \* candle start times and time arguments range over 0..MaxTime
MaxLimit == 2     \* the limit argument of request_klines ranges over 1..MaxLimit
MaxInitCalls == 2 \* calls of Strategy._init_core that are followed
MaxAmount == 5    \* amount of a TWAP submit, in hundredths of the smallest step
MaxDuration == 3  \* duration of a TWAP submit, in seconds: 1..MaxDuration
MaxWait == 2      \* wait of a TWAP submit, in seconds: 1..MaxWait
MaxSynth == 2     \* local uuids the registry synthesizes that are followed
MaxTransports == 3 \* transports ws_connect returns that are followed
MaxTasks == 2     \* _connection_handler tasks that are followed
MaxRequests == 2  \* requests of the Binance REST client that are followed
MaxPrivFrames == 2 \* frames of the private channels that are followed

\* The store keeps every order under its own uuid and an apply touches only
\* that entry, so one order is followed; a frame of the "orders" channel
\* carries one or two items.
Uuids == {1}
FrameSizes == {1, 2}

\* ---------------------------------------------------------------- statuses
\* constants.py OrderStatus
OrderStatus ==
    {"INITIALIZED", "FAILED", "CANCEL_FAILED", "PENDING", "CANCELING",
     "ACCEPTED", "PARTIALLY_FILLED", "FILLED", "CANCELED", "EXPIRED"}

\* constants.py STATUS_TRANSITIONS: the keys and their lists, as written
\* (PENDING lists CANCELED twice; INITIALIZED and CANCEL_FAILED are no keys).
STATUS_TRANSITIONS_dict ==
    [s \in {"PENDING", "CANCELING", "ACCEPTED", "PARTIALLY_FILLED",
            "FILLED", "CANCELED", "EXPIRED", "FAILED"} |->
        CASE s = "PENDING" ->
                <<"CANCELED", "CANCELING", "ACCEPTED", "PARTIALLY_FILLED",
                  "CANCELED", "FILLED", "CANCEL_FAILED">>
          [] s = "CANCELING" -> <<"CANCELED", "PARTIALLY_FILLED", "FILLED">>
          [] s = "ACCEPTED" ->
                <<"PARTIALLY_FILLED", "FILLED", "CANCELING", "CANCELED",
                  "EXPIRED", "CANCEL_FAILED">>
          [] s = "PARTIALLY_FILLED" ->
                <<"PARTIALLY_FILLED", "FILLED", "CANCELING", "CANCELED",
                  "EXPIRED", "CANCEL_FAILED">>
          [] s = "FILLED" -> << >>
          [] s = "CANCELED" -> << >>
          [] s = "EXPIRED" -> << >>
          [] s = "FAILED" -> << >>]

\* Slips the table invites: the ACCEPTED list pasted under PENDING (EXPIRED
\* added), a CANCELING order that may become ACCEPTED again, and a FILLED
\* order that may still be CANCELED.
STATUS_TRANSITIONS_PendingExpires ==
    [STATUS_TRANSITIONS_dict EXCEPT !["PENDING"] = Append(@, "EXPIRED")]

STATUS_TRANSITIONS_CancelingReopens ==
    [STATUS_TRANSITIONS_dict EXCEPT !["CANCELING"] = Append(@, "ACCEPTED")]

STATUS_TRANSITIONS_FilledCancelable ==
    [STATUS_TRANSITIONS_dict EXCEPT !["FILLED"] = <<"CANCELED">>]

\* The table the FSM consults.
STATUS_TRANSITIONS == STATUS_TRANSITIONS_dict

\* schema.py OrderSubmit.status default: a submitted order starts INITIALIZED
OrderSubmit_status == "INITIALIZED"

\* schema.py Order.is_opened
is_opened(status) ==
    status \in {"PENDING", "CANCELING", "PARTIALLY_FILLED", "ACCEPTED"}

\* schema.py Order optional fields default to None
NoneVal == -1

\* No Order stored under the uuid yet.
NoOrder == [status |-> OrderSubmit_status, filled |-> NoneVal, stored |-> FALSE]

Stored(o) == o.stored

\* The FSM check run before an apply.  An order that is still INITIALIZED
\* (nothing stored) takes the result of its create; a stored order is looked
\* up in STATUS_TRANSITIONS, and a status that is no key accepts nothing.
check_status_transition(prev, new) ==
    IF prev = OrderSubmit_status
    THEN new \in {"PENDING", "FAILED"}
    ELSE /\ prev \in DOMAIN STATUS_TRANSITIONS
         /\ \E i \in DOMAIN STATUS_TRANSITIONS[prev] : STATUS_TRANSITIONS[prev][i] = new

NoAttempt ==
    [uuid |-> 0, from |-> OrderSubmit_status, to |-> OrderSubmit_status,
     ok |-> FALSE, before |-> NoOrder]

\* The cache state as one value, so that a handler can fold over its items.
CacheState ==
    [orders |-> mem_orders, open |-> mem_open_orders,
     sym_open |-> mem_symbol_open_orders, path |-> status_path, att |-> last_attempt]

\* Apply one Order to the cache: run the FSM, store when accepted and
\* re-derive the open-order indices; a rejected order is logged and dropped.
order_status_update(c, ord) ==
    LET u    == ord.uuid
        prev == c.orders[u].status
        ok   == check_status_transition(prev, ord.status)
        rec  == [status |-> ord.status, filled |-> ord.filled, stored |-> TRUE]
        att  == [uuid |-> u, from |-> prev, to |-> ord.status, ok |-> ok,
                 before |-> c.orders[u]]
    IN  IF ok
        THEN [orders   |-> [c.orders EXCEPT ![u] = rec],
              open     |-> IF is_opened(ord.status) THEN c.open \cup {u} ELSE c.open \ {u},
              sym_open |-> IF is_opened(ord.status) THEN c.sym_open \cup {u}
                                                   ELSE c.sym_open \ {u},
              path     |-> [c.path EXCEPT ![u] = Append(@, ord.status)],
              att      |-> att]
        ELSE [c EXCEPT !.att = att]

RECURSIVE apply_all(_, _)
apply_all(c, items) ==
    IF items = << >> THEN c
    ELSE apply_all(order_status_update(c, Head(items)), Tail(items))

SetCache(c) ==
    /\ UNCHANGED notOrderVars
    /\ \A u \in Uuids : Len(c.path[u]) <= MaxPath
    /\ mem_orders' = c.orders
    /\ mem_open_orders' = c.open
    /\ mem_symbol_open_orders' = c.sym_open
    /\ status_path' = c.path
    /\ last_attempt' = c.att

\* connector.py create_order: the returned Order is PENDING (POST answered)
\* or FAILED (POST raised), with filled = 0; the EMS applies it to the cache.
CreateOrderResult(u, posted) ==
    /\ ~Stored(mem_orders[u])
    /\ LET ord == [uuid |-> u, status |-> IF posted THEN "PENDING" ELSE "FAILED",
                   filled |-> 0]
       IN  SetCache(apply_all(CacheState, <<ord>>))

\* connector.py cancel_order: the returned Order is CANCELING or CANCEL_FAILED
\* and carries no amounts; the EMS applies it to the order being canceled.
CancelOrderResult(u, posted) ==
    /\ Stored(mem_orders[u])
    /\ LET ord == [uuid |-> u, status |-> IF posted THEN "CANCELING" ELSE "CANCEL_FAILED",
                   filled |-> NoneVal]
       IN  SetCache(apply_all(CacheState, <<ord>>))

\* The statuses a venue order update can carry.
VenueStatus == {"ACCEPTED", "PARTIALLY_FILLED", "FILLED", "CANCELED", "EXPIRED"}

VenueItem == [uuid : Uuids, status : VenueStatus, filled : 0..MaxFill]

Frames == UNION {[1..n -> VenueItem] : n \in FrameSizes}

\* connector.py _handle_orders: every item of the frame, in order, becomes an
\* Order sent to the "okx.order" endpoint, whose handler applies it.
_handle_orders(frame) ==
    SetCache(apply_all(CacheState, frame))


\* ------------------------------------------------- private connector (REST)
ConnOps == {"create_order", "cancel_order", "create_stop_loss_order",
            "create_take_profit_order"}

\* constants.py OrderType
OrderType == {"MARKET", "LIMIT"}

\* What one REST request can come to: an HTTP status, or no response at all.
HttpStatus == {200, 201, 400, 404, 429, 499, 500, 503}
RestOutcome ==
    [kind : {"response"}, status : HttpStatus]
    \cup [kind : {"ClientConnectionError", "TimeoutError"}, status : {0}]

\* rest_api.py raise_error: the exception a status raises, or none.
raise_error(status) ==
    IF 400 <= status /\ status < 500 THEN "ClientError"
    ELSE IF status >= 500 THEN "ServerError"
    ELSE "none"

\* rest_api.py _fetch, lines 67-84: True when the call returns the body; a
\* transport error, a timeout and an error status are logged and re-raised.
fetch_returns(outcome) ==
    outcome.kind = "response" /\ raise_error(outcome.status) = "none"

\* A _fetch that tries again once when the request did not succeed.
requests_issued_retrying(outcome) == IF fetch_returns(outcome) THEN 1 ELSE 2

\* rest_api.py _fetch, lines 67-84: the requests one call issues until it
\* ends: one session.request, whatever comes of it.
requests_issued(outcome) == 1

\* rest: what came of the call's REST request, once it has ended.
NoCall == [op |-> "none", symbol_known |-> TRUE, type |-> "MARKET",
           has_price |-> FALSE, pc |-> "idle", rest |-> "none"]

Calls == [op : ConnOps, symbol_known : BOOLEAN, type : OrderType,
          has_price : BOOLEAN, pc : {"called"}, rest : {"none"}]

Finished == call.pc \in {"returned", "raised"}

\* connector.py create_order 537-572 and cancel_order 617-622, run once the
\* limiter is passed: the market lookup and the LIMIT price check raise
\* ValueError outside the try block; otherwise the POST is awaited.
validate_and_post(c) ==
    IF ~c.symbol_known
    THEN /\ call' = [c EXCEPT !.pc = "raised"]
         /\ result' = "ValueError"
         /\ posts' = 0
    ELSE IF c.op = "create_order" /\ c.type = "LIMIT" /\ ~c.has_price
    THEN /\ call' = [c EXCEPT !.pc = "raised"]
         /\ result' = "ValueError"
         /\ posts' = 0
    ELSE /\ call' = [c EXCEPT !.pc = "post"]
         /\ result' = "pending_call"
         /\ posts' = 1

\* The caller invokes an outgoing operation.  create_stop_loss_order and
\* create_take_profit_order have the body `pass`: they return None at once.
\* create_order and cancel_order first await the limiter when there is one.
ConnCall(c) ==
    /\ call.pc = "idle" \/ Finished
    /\ UNCHANGED <<has_limiter, notConnVars>>
    /\ IF c.op \in {"create_stop_loss_order", "create_take_profit_order"}
       THEN /\ call' = [c EXCEPT !.pc = "returned"]
            /\ result' = "None"
            /\ posts' = 0
       ELSE IF has_limiter
       THEN /\ call' = [c EXCEPT !.pc = "limiter"]
            /\ result' = "pending_call"
            /\ posts' = 0
       ELSE validate_and_post(c)

\* connector.py 534-535 / 614-615: the limiter lets the call through.
ConnLimiterAcquired ==
    /\ call.pc = "limiter"
    /\ validate_and_post(call)
    /\ UNCHANGED <<has_limiter, notConnVars>>

\* connector.py 574-611 / 624-645: the awaited POST ends; the try block
\* returns a PENDING / CANCELING Order, the except block a FAILED /
\* CANCEL_FAILED one.
ConnPostDone(outcome) ==
    /\ call.pc = "post"
    /\ posts' = posts + (requests_issued(outcome) - 1)
    /\ call' = [call EXCEPT !.pc = "returned", !.rest = outcome.kind]
    /\ result' = IF call.op = "create_order"
                 THEN (IF fetch_returns(outcome) THEN "PENDING" ELSE "FAILED")
                 ELSE (IF fetch_returns(outcome) THEN "CANCELING" ELSE "CANCEL_FAILED")
    /\ UNCHANGED <<has_limiter, notConnVars>>

InitConn ==
    /\ has_limiter \in BOOLEAN
    /\ call = NoCall
    /\ posts = 0
    /\ result = "pending_call"

ConnAtRest ==
    /\ has_limiter = FALSE
    /\ call = NoCall
    /\ posts = 0
    /\ result = "pending_call"

NextConn ==
    \/ \E c \in Calls : ConnCall(c)
    \/ ConnLimiterAcquired
    \/ \E outcome \in RestOutcome : ConnPostDone(outcome)

\* ------------------------------------------------------- order store spec
\* ---------------------------------------------------------------- positions
Symbols == {"BTCUSDT-PERP.OKX", "ETHUSDT-PERP.OKX"}

\* The venue's posSide field.
OkxPositionSide == {"long", "short", "net"}

\* parse_to_position_side: "net" is the one-way mode and parses to FLAT, as
\* the branches of _init_position and _handle_positions spell out.
parse_to_position_side(posSide) ==
    CASE posSide = "long" -> "LONG"
      [] posSide = "short" -> "SHORT"
      [] posSide = "net" -> "FLAT"

\* schema.py Position: the fields the handlers derive from posSide and pos.
\* side is Optional and "None" stands for Python's None.
NoPosition == [side |-> "None", signed_amount |-> 0, stored |-> FALSE]

Position(side, signed_amount) ==
    [side |-> side, signed_amount |-> signed_amount, stored |-> TRUE]

\* One element of the data list of a positions response or frame.
PositionData == [instId : Symbols, posSide : OkxPositionSide, pos : -MaxPos..MaxPos]

PositionFrames == UNION {[1..n -> PositionData] : n \in FrameSizes}

\* a snapshot path that takes a one-way ("net") position as long whatever
\* the sign of pos
init_position_of_net_as_long(data) ==
    LET side == parse_to_position_side(data.posSide) IN
    IF side = "FLAT"
    THEN IF data.pos # 0 THEN Position("LONG", data.pos) ELSE Position("None", data.pos)
    ELSE IF side = "LONG" THEN Position(side, data.pos)
    ELSE Position(side, -data.pos)

\* _init_position, body of the loop: the position built from one element.
init_position_of(data) ==
    LET side == parse_to_position_side(data.posSide) IN
    IF side = "FLAT"
    THEN IF data.pos > 0 THEN Position("LONG", data.pos)
         ELSE IF data.pos < 0 THEN Position("SHORT", data.pos)
         ELSE Position("None", data.pos)
    ELSE IF side = "LONG" THEN Position(side, data.pos)
    ELSE Position(side, -data.pos)

\* the amount of a short position is taken as it is sent
handle_position_of_short_unnegated(data) ==
    LET side == parse_to_position_side(data.posSide) IN
    IF side = "LONG" THEN Position(side, data.pos)
    ELSE IF side = "SHORT" THEN Position(side, data.pos)
    ELSE IF data.pos > 0 THEN Position("LONG", data.pos)
    ELSE IF data.pos < 0 THEN Position("SHORT", data.pos)
    ELSE Position("None", data.pos)

\* _handle_positions, body of the loop.
handle_position_of(data) ==
    LET side == parse_to_position_side(data.posSide) IN
    IF side = "LONG" THEN Position(side, data.pos)
    ELSE IF side = "SHORT" THEN Position(side, -data.pos)
    ELSE IF data.pos > 0 THEN Position("LONG", data.pos)
    ELSE IF data.pos < 0 THEN Position("SHORT", data.pos)
    ELSE Position("None", data.pos)

\* cache._apply_position: the position is kept under its symbol.
_apply_position(m, symbol, position) == [m EXCEPT ![symbol] = position]

\* The loop over the data list: each element's position is applied in turn.
RECURSIVE apply_positions(_, _)
apply_positions(m, built) ==
    IF built = <<>> THEN m
    ELSE apply_positions(_apply_position(m, Head(built).symbol, Head(built).position),
                         Tail(built))

\* The element a symbol's position comes from: the last one of the data list
\* that names the symbol, the earlier source when none does.
NoSource == [op |-> "none", posSide |-> "none", pos |-> 0]

sources_after(op, items) ==
    [s \in Symbols |->
        LET at == {i \in DOMAIN items : items[i].instId = s} IN
        IF at = {} THEN pos_source[s]
        ELSE LET last == CHOOSE i \in at : \A j \in at : j <= i
             IN [op |-> op, posSide |-> items[last].posSide, pos |-> items[last].pos]]

_init_position(res) ==
    /\ mem_positions' = apply_positions(mem_positions,
           [i \in DOMAIN res |->
               [symbol |-> res[i].instId, position |-> init_position_of(res[i])]])
    /\ pos_op' = "_init_position"
    /\ pos_source' = sources_after("_init_position", res)
    /\ UNCHANGED notPosVars

_handle_positions(frame) ==
    /\ mem_positions' = apply_positions(mem_positions,
           [i \in DOMAIN frame |->
               [symbol |-> frame[i].instId, position |-> handle_position_of(frame[i])]])
    /\ pos_op' = "_handle_positions"
    /\ pos_source' = sources_after("_handle_positions", frame)
    /\ UNCHANGED notPosVars

PosAtRest ==
    /\ mem_positions = [s \in Symbols |-> NoPosition]
    /\ pos_op = "none"
    /\ pos_source = [s \in Symbols |-> NoSource]

InitPos == PosAtRest

NextPos ==
    \/ \E res \in PositionFrames : _init_position(res)
    \/ \E frame \in PositionFrames : _handle_positions(frame)

\* -------------------------------------------------------- WebSocket client
\* The supervisor, connect, disconnect and the listener are those of
\* base/ws_client.py; subscribe and _resubscribe, abstract there, are those
\* of the Binance manager in example/picows_client.py.

\* subscription_id of subscribe_book_ticker and subscribe_trade for one symbol.
Channels == {"book_ticker.BTCUSDT", "trade.BTCUSDT"}

WSMsgType == {"PING", "TEXT", "CLOSE"}

\* Payloads of TEXT frames as the OKX private connector tells them apart: the
\* reply to the application-level ping, bytes that are no message, a channel
\* message of an instrument the market catalogue does not hold, and a
\* channel message it can handle.
TextPayloads == {"pong", "undecodable", "unknown_instId", "channel_data"}

InboundFrames ==
    [msg_type : {"PING", "CLOSE"}, raw : {"none"}] \cup [msg_type : {"TEXT"}, raw : TextPayloads]

\* b"ping" is what the OKX clients are built with.
PingPayloads == {"None", "ping"}

\* What transport.send does on a transport whose connection is already down
\* is the library's business: it raises or it drops the frame.
DeadSend == {"OSError", "dropped"}

\* ws_connect raises what create_connection raises, or WSError.
ConnectErrors == {"OSError", "WSError"}

Range(seq) == {seq[i] : i \in DOMAIN seq}

\* property connected: self._transport and self._listener (set and cleared together)
connected == ws_transport # "None"

\* subscription_id not in self._subscriptions, negated
already_subscribed_never(subscriptions, subscription_id) == FALSE

already_subscribed(subscriptions, subscription_id) ==
    subscription_id \in Range(subscriptions)

\* self._subscriptions[subscription_id] = payload: a new key goes to the end,
\* an existing key keeps its place.
dict_set(subscriptions, subscription_id) ==
    IF subscription_id \in Range(subscriptions) THEN subscriptions
    ELSE Append(subscriptions, subscription_id)

\* transport.send on the current transport: what happens to the frame.
send_outcome(dead_send) ==
    IF ~connected THEN "AttributeError"
    ELSE IF ws_alive THEN "sent"
    ELSE dead_send

\* "except WSError" in place of "except Exception"
handler_catches_WSError_only(exc) == exc = "WSError"

\* _connection_handler: except Exception
handler_catches(exc) == TRUE

NoIter == [pos |-> 0, size |-> 0]

\* the supervisor going to sleep after a failure with the transport left as
\* it is
after_try_keeps_transport(exc) ==
    /\ ws_pc' = "sleep"
    /\ UNCHANGED <<ws_transport, ws_alive, ws_close_seen>>

\* _connection_handler after the try statement, exc being what the try body
\* raised ("none" when it ended normally): an exception the except clause
\* does not catch ends the task; otherwise disconnect() if connected, then
\* sleep(reconnect_interval).
after_try(exc) ==
    IF exc # "none" /\ ~handler_catches(exc)
    THEN /\ ws_pc' = "dead"
         /\ UNCHANGED <<ws_transport, ws_alive, ws_close_seen>>
    ELSE /\ ws_pc' = "sleep"
         /\ ws_transport' = "None"
         /\ ws_alive' = FALSE
         /\ ws_close_seen' = FALSE

\* connect(): if not connected, _connect() and create_task(_connection_handler()).
\* The first call is followed; when ws_connect raises, connect() raises to the
\* caller and nothing has changed.
connect(ok) ==
    /\ ws_pc = "none"
    /\ ~connected
    /\ IF ok
       THEN /\ ws_transport' = "T"
            /\ ws_alive' = TRUE
            /\ ws_opened_by' = "connect"
            /\ ws_sent' = <<>>
            /\ ws_pc' = "loop"
       ELSE UNCHANGED <<ws_transport, ws_alive, ws_opened_by, ws_sent, ws_pc>>
    /\ UNCHANGED <<ws_subscriptions, ws_iter, sub_call, ws_drops, ws_close_seen, ws_handled>>
    /\ UNCHANGED notWsVars

\* _connection_handler, top of the loop (first run of the task, or the sleep
\* is over): connect if not connected, else go on to wait_disconnected().
HandlerLoop ==
    /\ ws_pc \in {"loop", "sleep"}
    /\ ws_pc' = IF connected THEN "wait_disconnected" ELSE "_connect"
    /\ UNCHANGED <<ws_transport, ws_alive, ws_opened_by, ws_subscriptions, ws_sent,
                   ws_iter, sub_call, ws_drops, ws_close_seen, ws_handled>>
    /\ UNCHANGED notWsVars

\* await self._connect() returned: the new transport is in place and
\* _resubscribe starts iterating the dict, up to its first limiter wait.
HandlerConnected ==
    /\ ws_pc = "_connect"
    /\ ws_transport' = "T"
    /\ ws_alive' = TRUE
    /\ ws_opened_by' = "supervisor"
    /\ ws_sent' = <<>>
    /\ ws_close_seen' = FALSE
    /\ IF ws_subscriptions = <<>>
       THEN ws_pc' = "wait_disconnected" /\ ws_iter' = NoIter
       ELSE ws_pc' = "_resubscribe" /\ ws_iter' = [pos |-> 1, size |-> Len(ws_subscriptions)]
    /\ UNCHANGED <<ws_subscriptions, sub_call, ws_drops, ws_handled>>
    /\ UNCHANGED notWsVars

\* await self._connect() raised.
HandlerConnectFailed(exc) ==
    /\ ws_pc = "_connect"
    /\ after_try(exc)
    /\ UNCHANGED <<ws_opened_by, ws_subscriptions, ws_sent, ws_iter, sub_call,
                   ws_drops, ws_handled>>
    /\ UNCHANGED notWsVars

\* _resubscribe: the limiter let the iteration through; the payload is sent
\* and the for statement asks the dict iterator for the next item, which
\* raises RuntimeError when the dict changed size since the iteration began.
ResubscribeStep(dead_send) ==
    /\ ws_pc = "_resubscribe"
    /\ LET out == send_outcome(dead_send)
           exc == IF out \notin {"sent", "dropped"} THEN out
                  ELSE IF Len(ws_subscriptions) # ws_iter.size THEN "RuntimeError"
                  ELSE "none"
       IN /\ ws_sent' = IF out = "sent"
                        THEN Append(ws_sent, ws_subscriptions[ws_iter.pos])
                        ELSE ws_sent
          /\ IF exc # "none"
             THEN after_try(exc) /\ ws_iter' = NoIter
             ELSE IF ws_iter.pos = ws_iter.size
             THEN /\ ws_pc' = "wait_disconnected"
                  /\ ws_iter' = NoIter
                  /\ UNCHANGED <<ws_transport, ws_alive, ws_close_seen>>
             ELSE /\ ws_iter' = [ws_iter EXCEPT !.pos = @ + 1]
                  /\ UNCHANGED <<ws_pc, ws_transport, ws_alive, ws_close_seen>>
    /\ UNCHANGED <<ws_opened_by, ws_subscriptions, sub_call, ws_drops, ws_handled>>
    /\ UNCHANGED notWsVars

\* await self._transport.wait_disconnected() returned: the connection of the
\* transport the task waited on is down.
HandlerDisconnected ==
    /\ ws_pc = "wait_disconnected"
    /\ ~ws_alive
    /\ after_try("none")
    /\ UNCHANGED <<ws_opened_by, ws_subscriptions, ws_sent, ws_iter, sub_call,
                   ws_drops, ws_handled>>
    /\ UNCHANGED notWsVars

\* disconnect() called from outside the supervisor.
disconnect ==
    /\ connected
    /\ ws_drops < MaxDrops
    /\ ws_drops' = ws_drops + 1
    /\ ws_transport' = "None"
    /\ ws_alive' = FALSE
    /\ ws_close_seen' = FALSE
    /\ UNCHANGED <<ws_opened_by, ws_subscriptions, ws_sent, ws_pc, ws_iter, sub_call,
                   ws_handled>>
    /\ UNCHANGED notWsVars

\* The connection goes down under the client: the peer closes it, the network
\* fails, or the keepalive ping gets no reply.
ConnectionLost ==
    /\ ws_alive
    /\ ws_drops < MaxDrops
    /\ ws_drops' = ws_drops + 1
    /\ ws_alive' = FALSE
    /\ UNCHANGED <<ws_transport, ws_opened_by, ws_subscriptions, ws_sent, ws_pc, ws_iter,
                   sub_call, ws_close_seen, ws_handled>>
    /\ UNCHANGED notWsVars

\* raw == b"pong" never holds
is_pong_never(raw) == FALSE

\* _ws_msg_handler: raw == b"pong"
is_pong(raw) == raw = "pong"

\* msgspec decoder: bytes that are a general message decode, others raise
\* DecodeError.
decodes(raw) == raw \in {"unknown_instId", "channel_data"}

\* OkxPrivateConnector._ws_msg_handler: what the call does, or the exception
\* it raises.  Only DecodeError is caught here; the KeyError of
\* self._market_id[data.instId] in a sub-handler leaves the handler.
_ws_msg_handler(raw) ==
    IF is_pong(raw) THEN "notify_user_specific_pong_received"
    ELSE IF ~decodes(raw) THEN "log_DecodeError"
    ELSE IF raw = "unknown_instId" THEN "KeyError"
    ELSE "handled"

HandlerExceptions == {"KeyError"}

\* "except msgspec.DecodeError" in place of "except Exception"
listener_catches_DecodeError_only(exc) == exc = "DecodeError"

\* Listener.on_ws_frame: except Exception
listener_catches(exc) == TRUE

\* Listener.on_ws_frame: what the listener does with one frame; "raised"
\* stands for an exception that leaves on_ws_frame towards the transport.
frame_outcome(frame) ==
    CASE frame.msg_type = "PING" -> "send_pong"
      [] frame.msg_type = "CLOSE" -> "log_close"
      [] frame.msg_type = "TEXT" ->
            LET out == _ws_msg_handler(frame.raw) IN
            IF out \notin HandlerExceptions THEN out
            ELSE IF listener_catches(out) THEN "log_error"
            ELSE "raised"

NoFrame == [frame |-> "none", did |-> "none"]

\* Listener.on_ws_frame.  A CLOSE frame is the last frame a peer sends on a
\* connection.
on_ws_frame(frame) ==
    /\ connected
    /\ ws_alive
    /\ ~ws_close_seen
    /\ ws_handled' = [frame |-> IF frame.msg_type = "TEXT" THEN frame.raw ELSE frame.msg_type,
                      did |-> frame_outcome(frame)]
    /\ ws_close_seen' = (ws_close_seen \/ frame.msg_type = "CLOSE")
    /\ UNCHANGED <<ws_transport, ws_alive, ws_opened_by, ws_subscriptions, ws_sent, ws_pc,
                   ws_iter, sub_call, ws_drops>>
    /\ UNCHANGED notWsVars

\* Listener.send_user_specific_ping, called by the transport's keepalive.
send_user_specific_ping ==
    /\ connected
    /\ ws_alive
    /\ ws_handled' = [frame |-> "keepalive",
                      did |-> IF specific_ping_msg # "None" THEN "send_TEXT" ELSE "send_ping"]
    /\ UNCHANGED <<ws_transport, ws_alive, ws_opened_by, ws_subscriptions, ws_sent, ws_pc,
                   ws_iter, sub_call, ws_drops, ws_close_seen>>
    /\ UNCHANGED notWsVars

NoSubscribe == [pc |-> "idle", channel |-> "none", result |-> "none"]

\* subscribe_book_ticker / subscribe_trade up to the limiter wait; the caller
\* awaits each call before it makes the next.
subscribe(subscription_id) ==
    /\ sub_call.pc = "idle"
    /\ sub_call' = IF already_subscribed(ws_subscriptions, subscription_id)
                   THEN [pc |-> "idle", channel |-> subscription_id, result |-> "already"]
                   ELSE [pc |-> "limiter", channel |-> subscription_id, result |-> "none"]
    /\ UNCHANGED <<ws_transport, ws_alive, ws_opened_by, ws_subscriptions, ws_sent, ws_pc,
                   ws_iter, ws_drops, ws_close_seen, ws_handled>>
    /\ UNCHANGED notWsVars

\* ... and after it: the payload is remembered, then sent.
SubscribeSend(dead_send) ==
    /\ sub_call.pc = "limiter"
    /\ LET out == send_outcome(dead_send) IN
       /\ ws_subscriptions' = dict_set(ws_subscriptions, sub_call.channel)
       /\ ws_sent' = IF out = "sent" THEN Append(ws_sent, sub_call.channel) ELSE ws_sent
       /\ sub_call' = [sub_call EXCEPT !.pc = "idle", !.result = out]
    /\ UNCHANGED <<ws_transport, ws_alive, ws_opened_by, ws_pc, ws_iter, ws_drops,
                   ws_close_seen, ws_handled>>
    /\ UNCHANGED notWsVars

\* WSClient.__init__
WsAtRest ==
    /\ ws_transport = "None"
    /\ ws_alive = FALSE
    /\ ws_opened_by = "none"
    /\ ws_subscriptions = <<>>
    /\ ws_sent = <<>>
    /\ ws_pc = "none"
    /\ ws_iter = NoIter
    /\ sub_call = NoSubscribe
    /\ ws_drops = 0
    /\ ws_close_seen = FALSE
    /\ ws_handled = NoFrame
    /\ specific_ping_msg = "None"

\* WSClient.__init__ with either configuration of the ping payload.
InitWs ==
    /\ ws_transport = "None"
    /\ ws_alive = FALSE
    /\ ws_opened_by = "none"
    /\ ws_subscriptions = <<>>
    /\ ws_sent = <<>>
    /\ ws_pc = "none"
    /\ ws_iter = NoIter
    /\ sub_call = NoSubscribe
    /\ ws_drops = 0
    /\ ws_close_seen = FALSE
    /\ ws_handled = NoFrame
    /\ specific_ping_msg \in PingPayloads

SupervisorStep ==
    \/ HandlerLoop
    \/ \E dead_send \in DeadSend : ResubscribeStep(dead_send)
    \/ HandlerDisconnected

NextWs ==
    \/ \E ok \in BOOLEAN : connect(ok)
    \/ HandlerLoop
    \/ HandlerConnected
    \/ \E exc \in ConnectErrors : HandlerConnectFailed(exc)
    \/ \E dead_send \in DeadSend : ResubscribeStep(dead_send)
    \/ HandlerDisconnected
    \/ disconnect
    \/ ConnectionLost
    \/ \E frame \in InboundFrames : on_ws_frame(frame)
    \/ send_user_specific_ping
    \/ \E subscription_id \in Channels : subscribe(subscription_id)
    \/ \E dead_send \in DeadSend : SubscribeSend(dead_send)

\* ------------------------------ WebSocket client: connect() and supervisors
\* connect() may be called at any time, each successful call creating a
\* _connection_handler task; every task and every transport is followed.
\* (_resubscribe, which the section above follows, is left out here.)

\* property connected, on the transport the client holds
sup_connected == sup_transport # 0

\* disconnect(), lines 173-177: the held transport is disconnected and dropped.
disconnect_held ==
    /\ sup_open' = sup_open \ {sup_transport}
    /\ sup_transport' = 0

\* _connect(), lines 137-147, when ws_connect has returned: a new transport
\* replaces whatever self._transport held.
_connect_returned ==
    /\ sup_created' = sup_created + 1
    /\ sup_transport' = sup_created + 1
    /\ sup_open' = sup_open \cup {sup_created + 1}

\* connect(), lines 149-151: nothing when connected, else await _connect().
WSClient_connect ==
    /\ UNCHANGED notSupVars
    /\ sup_connect = "idle"
    /\ ~sup_connected
    /\ sup_created < MaxTransports
    /\ Len(sup_tasks) < MaxTasks
    /\ sup_connect' = "_connect"
    /\ sup_closed_by_user' = FALSE
    /\ UNCHANGED <<sup_transport, sup_open, sup_created, sup_tasks>>

\* connect(), lines 151-152: _connect() returned and the supervisor task is
\* created; or ws_connect raised and connect() raises.
WSClient_connect_resumed(ok) ==
    /\ UNCHANGED notSupVars
    /\ sup_connect = "_connect"
    /\ sup_connect' = "idle"
    /\ UNCHANGED sup_closed_by_user
    /\ IF ok
       THEN /\ _connect_returned
            /\ sup_tasks' = Append(sup_tasks, [pc |-> "loop", on |-> 0])
       ELSE UNCHANGED <<sup_transport, sup_open, sup_created, sup_tasks>>

\* _connection_handler, lines 155-160: top of the loop.
_connection_handler_loop(i) ==
    /\ UNCHANGED notSupVars
    /\ i \in DOMAIN sup_tasks
    /\ sup_tasks[i].pc \in {"loop", "sleep"}
    /\ IF sup_connected
       THEN sup_tasks' = [sup_tasks EXCEPT ![i] = [pc |-> "wait_disconnected", on |-> sup_transport]]
       ELSE /\ sup_created < MaxTransports
            /\ sup_tasks' = [sup_tasks EXCEPT ![i] = [pc |-> "_connect", on |-> 0]]
    /\ UNCHANGED <<sup_transport, sup_open, sup_created, sup_connect, sup_closed_by_user>>

\* lines 158-160: _connect() returned in the task, which goes on to wait on
\* the transport it now holds.
_connection_handler_connected(i) ==
    /\ UNCHANGED notSupVars
    /\ i \in DOMAIN sup_tasks
    /\ sup_tasks[i].pc = "_connect"
    /\ _connect_returned
    /\ sup_tasks' = [sup_tasks EXCEPT ![i] = [pc |-> "wait_disconnected", on |-> sup_created + 1]]
    /\ UNCHANGED <<sup_connect, sup_closed_by_user>>

\* lines 161-167: the try body ended (wait_disconnected returned, or
\* _connect raised); disconnect() if connected, then sleep.
_connection_handler_after_try(i) ==
    /\ UNCHANGED notSupVars
    /\ i \in DOMAIN sup_tasks
    /\ \/ sup_tasks[i].pc = "_connect"
       \/ sup_tasks[i].pc = "wait_disconnected" /\ sup_tasks[i].on \notin sup_open
    /\ IF sup_connected THEN disconnect_held ELSE UNCHANGED <<sup_transport, sup_open>>
    /\ sup_tasks' = [sup_tasks EXCEPT ![i] = [pc |-> "sleep", on |-> 0]]
    /\ UNCHANGED <<sup_created, sup_connect, sup_closed_by_user>>

\* disconnect() called from outside the supervisor.
WSClient_disconnect ==
    /\ UNCHANGED notSupVars
    /\ sup_connected
    /\ disconnect_held
    /\ sup_closed_by_user' = TRUE
    /\ UNCHANGED <<sup_created, sup_tasks, sup_connect>>

\* The connection of a transport goes down under the client.
TransportLost(t) ==
    /\ UNCHANGED notSupVars
    /\ t \in sup_open
    /\ sup_open' = sup_open \ {t}
    /\ UNCHANGED <<sup_transport, sup_created, sup_tasks, sup_connect, sup_closed_by_user>>

\* WSClient.__init__
SupAtRest ==
    /\ sup_transport = 0
    /\ sup_open = {}
    /\ sup_created = 0
    /\ sup_tasks = <<>>
    /\ sup_connect = "idle"
    /\ sup_closed_by_user = FALSE

InitSup == SupAtRest

NextSup ==
    \/ WSClient_connect
    \/ \E ok \in BOOLEAN : WSClient_connect_resumed(ok)
    \/ \E i \in 1..MaxTasks : _connection_handler_loop(i)
    \/ \E i \in 1..MaxTasks : _connection_handler_connected(i)
    \/ \E i \in 1..MaxTasks : _connection_handler_after_try(i)
    \/ WSClient_disconnect
    \/ \E t \in 1..MaxTransports : TransportLost(t)

\* ----------------------------------------------------------------- balances
Assets == {"BTC", "ETH", "USDT"}

\* schema.py Balance
Balance == [asset : Assets, free : 0..MaxBal, locked : {0}]

NoBalance == [asset |-> "none", free |-> 0, locked |-> 0]

\* What parse_to_balance gives for one element of the data list: the
\* balances of its details, one or two, in order.
BalanceLists == UNION {[1..n -> Balance] : n \in FrameSizes}

\* The data list of an account message or a balance response holds one element.
AccountFrames == {<<balances>> : balances \in BalanceLists}

\* An apply that starts from an empty mapping.
AccountBalance_apply_clearing(stored, balances) ==
    [a \in Assets |->
        LET idx == {i \in DOMAIN balances : balances[i].asset = a} IN
        IF idx = {} THEN NoBalance
        ELSE balances[CHOOSE i \in idx : \A j \in idx : j <= i]]

\* AccountBalance._apply: for balance in balances: self.balances[balance.asset] = balance
RECURSIVE AccountBalance_apply(_, _)
AccountBalance_apply(stored, balances) ==
    IF balances = <<>> THEN stored
    ELSE AccountBalance_apply([stored EXCEPT ![Head(balances).asset] = Head(balances)],
                              Tail(balances))

\* cache._apply_balance(account_type, balances): AccountBalance._apply on the
\* mapping of the account type.
_apply_balance(stored, balances) == AccountBalance_apply(stored, balances)

\* The loop over the data list, common to _handle_account and
\* _init_account_balance.
RECURSIVE apply_account_data(_, _)
apply_account_data(stored, data) ==
    IF data = <<>> THEN stored
    ELSE apply_account_data(_apply_balance(stored, Head(data)), Tail(data))

RECURSIVE Flatten(_)
Flatten(data) == IF data = <<>> THEN <<>> ELSE Head(data) \o Flatten(Tail(data))

_handle_account(frame) ==
    /\ mem_account_balance' = apply_account_data(mem_account_balance, frame)
    /\ bal_update' = Flatten(frame)
    /\ UNCHANGED notBalVars

_init_account_balance(res) ==
    /\ mem_account_balance' = apply_account_data(mem_account_balance, res)
    /\ bal_update' = Flatten(res)
    /\ UNCHANGED notBalVars

BalAtRest ==
    /\ mem_account_balance = [a \in Assets |-> NoBalance]
    /\ bal_update = <<>>

InitBal == BalAtRest

NextBal ==
    \/ \E frame \in AccountFrames : _handle_account(frame)
    \/ \E res \in AccountFrames : _init_account_balance(res)

\* ------------------------------------------- EMS queues and strategy helpers
OkxAccountType == {"DEMO", "AWS", "LIVE"}

\* Account types of private connectors: the OKX ones and one of another venue.
AccountType == OkxAccountType \cup {"BINANCE_SPOT"}

\* The account_type argument of a helper: none, or an OKX account type,
\* whether or not a connector exists for it.
AccountTypeArgs == OkxAccountType \cup {"None"}

OKX_ACCOUNT_TYPE_PRIORITY_LiveFirst == <<"LIVE", "AWS", "DEMO">>

OKX_ACCOUNT_TYPE_PRIORITY == <<"DEMO", "AWS", "LIVE">>

SubmitType == {"CREATE", "CANCEL", "TWAP", "CANCEL_TWAP"}

\* a queue for every OKX account type, connector or not
_build_order_submit_queues_all(connectors) ==
    [account_type \in OkxAccountType |-> <<>>]

\* _build_order_submit_queues: an empty queue for every OKX account type among
\* the private connectors.
_build_order_submit_queues(connectors) ==
    [account_type \in connectors \cap OkxAccountType |-> <<>>]

\* _set_account_type: the first account type of the priority list that has a
\* private connector; "None" when there is none.
RECURSIVE first_present(_, _)
first_present(priority, account_types) ==
    IF priority = <<>> THEN "None"
    ELSE IF Head(priority) \in account_types THEN Head(priority)
    ELSE first_present(Tail(priority), account_types)

_set_account_type(connectors) == first_present(OKX_ACCOUNT_TYPE_PRIORITY, connectors)

\* The EMS is built: its queues and its primary account type.
EmsBuild ==
    /\ ~ems_built
    /\ ems_built' = TRUE
    /\ _order_submit_queues' = _build_order_submit_queues(_private_connectors)
    /\ _okx_account_type' = _set_account_type(_private_connectors)
    /\ UNCHANGED <<_private_connectors, next_uuid, helper_call>>
    /\ UNCHANGED notEmsVars

\* the given account type is ignored
submit_queue_key_primary_only(account_type) == _okx_account_type

\* _submit_order: if not account_type: account_type = self._okx_account_type
submit_queue_key(account_type) ==
    IF account_type = "None" THEN _okx_account_type ELSE account_type

QueuedSubmits ==
    LET Sum(f) ==
          LET RECURSIVE S(_)
              S(D) == IF D = {} THEN 0
                      ELSE LET d == CHOOSE x \in D : TRUE IN Len(f[d]) + S(D \ {d})
          IN S(DOMAIN f)
    IN Sum(_order_submit_queues)

\* uuids: UUID4().value, with the "ALGO-" prefix for an algorithmic order.
Uuid(prefix, n) == [prefix |-> prefix, value |-> n]

\* No uuid: the argument of a create, the result of a call that raised.
NoUuid == [prefix |-> "None", value |-> 0]

\* A submission helper of the strategy: build the OrderSubmit, hand it to
\* _submit_order, return its uuid.  target is the uuid argument of a cancel.  put_nowait on a queue that does not
\* exist raises KeyError out of the helper.
submit_helper(helper, submit_type, uuid, target, account_type) ==
    LET order == [submit_type |-> submit_type, uuid |-> uuid]
        key == submit_queue_key(account_type)
    IN /\ ems_built
       /\ IF key \in DOMAIN _order_submit_queues
          THEN /\ QueuedSubmits < MaxSubmits
               /\ _order_submit_queues' =
                     [_order_submit_queues EXCEPT ![key] = Append(@, order)]
               /\ helper_call' = [helper |-> helper, account_type |-> account_type,
                                  uuid |-> target, returned |-> order.uuid, raised |-> "none"]
          ELSE /\ UNCHANGED _order_submit_queues
               /\ helper_call' = [helper |-> helper, account_type |-> account_type,
                                  uuid |-> target, returned |-> NoUuid, raised |-> "KeyError"]
       /\ UNCHANGED <<_private_connectors, ems_built, _okx_account_type>>
       /\ UNCHANGED notEmsVars

\* Targets of a cancel: the first plain order and the first algorithmic one.
KnownUuids == {Uuid("", 1), Uuid("ALGO-", 1)}

Strategy_create_order(account_type) ==
    /\ next_uuid <= MaxSubmits
    /\ submit_helper("create_order", "CREATE", Uuid("", next_uuid), NoUuid, account_type)
    /\ next_uuid' = next_uuid + 1

Strategy_cancel_order(uuid, account_type) ==
    /\ submit_helper("cancel_order", "CANCEL", uuid, uuid, account_type)
    /\ UNCHANGED next_uuid

Strategy_create_twap(account_type) ==
    /\ next_uuid <= MaxSubmits
    /\ submit_helper("create_twap", "TWAP", Uuid("ALGO-", next_uuid), NoUuid,
                     account_type)
    /\ next_uuid' = next_uuid + 1

Strategy_cancel_twap(uuid, account_type) ==
    /\ submit_helper("cancel_twap", "CANCEL_TWAP", uuid, uuid, account_type)
    /\ UNCHANGED next_uuid

NoHelperCall == [helper |-> "none", account_type |-> "None", uuid |-> NoUuid,
                 returned |-> NoUuid, raised |-> "none"]

EmsAtRest ==
    /\ _private_connectors = {}
    /\ ems_built = FALSE
    /\ _order_submit_queues = <<>>
    /\ _okx_account_type = "None"
    /\ next_uuid = 1
    /\ helper_call = NoHelperCall

\* OkxExecutionManagementSystem.__init__, with any set of private connectors.
InitEms ==
    /\ _private_connectors \in SUBSET AccountType
    /\ ems_built = FALSE
    /\ _order_submit_queues = <<>>
    /\ _okx_account_type = "None"
    /\ next_uuid = 1
    /\ helper_call = NoHelperCall

NextEms ==
    \/ EmsBuild
    \/ \E account_type \in AccountTypeArgs : Strategy_create_order(account_type)
    \/ \E uuid \in KnownUuids, account_type \in AccountTypeArgs :
          Strategy_cancel_order(uuid, account_type)
    \/ \E account_type \in AccountTypeArgs : Strategy_create_twap(account_type)
    \/ \E uuid \in KnownUuids, account_type \in AccountTypeArgs :
          Strategy_cancel_twap(uuid, account_type)

\* ------------------------------------------------------------ REST API client
\* base/api_client.py ApiClient and exchange/binance/rest_api.py
\* BinanceApiClient.  A session is known by its number in order of creation;
\* 0 stands for None.

\* Bodies of a response: a JSON document, bytes that are no JSON (the error
\* page of a gateway), no bytes at all.
RawBodies == {"json", "not_json", "empty"}

\* orjson.loads: the parsed document, or JSONDecodeError.
orjson_loads(raw) == IF raw = "json" THEN "parsed" ELSE "JSONDecodeError"

NoError == [exc |-> "none", status |-> 0, message |-> "none", headers |-> "none"]

\* raise_error with its three arguments: the exception it raises, or NoError
\* when it returns.  The arguments of the exception are evaluated before it is
\* built, so a body orjson cannot parse raises JSONDecodeError in its place.
raise_error_raw(raw, status, headers) ==
    IF status >= 400
    THEN IF orjson_loads(raw) = "JSONDecodeError"
         THEN [exc |-> "JSONDecodeError", status |-> 0, message |-> "none",
               headers |-> "none"]
         ELSE [exc |-> raise_error(status), status |-> status,
               message |-> orjson_loads(raw), headers |-> headers]
    ELSE NoError

NoRaise == [raw |-> "none", status |-> 0, error |-> NoError]

\* A call of raise_error on a response read from the venue.
raise_error_call(raw, status) ==
    /\ raised' = [raw |-> raw, status |-> status,
                  error |-> raise_error_raw(raw, status, "headers")]
    /\ UNCHANGED <<_session, sessions, close_pc, fetch>>
    /\ UNCHANGED notApiVars

\* a session is made for every request
_init_session_creates_always(session) == TRUE

\* _init_session: if self._session is None
_init_session_creates(session) == session = 0

\* _init_session is a plain function and gives None.
_init_session_returns == "None"

\* await: only an awaitable can be awaited.
await(value) == IF value = "None" THEN "TypeError" ELSE "awaited"

NoFetch == [created |-> FALSE, session |-> 0, outcome |-> "none"]

\* _fetch, line 53: _init_session() makes the session when there is none, and
\* what it returns is awaited.  The await of None raises TypeError, outside
\* the try block, and the call ends there: lines 55-84 are not reached.
_fetch ==
    /\ IF _init_session_creates(_session)
       THEN /\ Len(sessions) < MaxSessions
            /\ sessions' = Append(sessions, "open")
            /\ _session' = Len(sessions) + 1
       ELSE UNCHANGED <<_session, sessions>>
    /\ fetch' = [created |-> _init_session_creates(_session), session |-> _session',
                 outcome |-> await(_init_session_returns)]
    /\ UNCHANGED <<close_pc, raised>>
    /\ UNCHANGED notApiVars

\* close_session up to its await: nothing to do without a session, else
\* session.close() is awaited.  One close_session runs at a time.
close_session ==
    /\ close_pc = "idle"
    /\ IF _session = 0
       THEN UNCHANGED <<sessions, close_pc>>
       ELSE /\ sessions' = [sessions EXCEPT ![_session] = "closed"]
            /\ close_pc' = "closing"
    /\ UNCHANGED <<_session, fetch, raised>>
    /\ UNCHANGED notApiVars

\* close_session after the await: self._session = None.
close_session_resumed ==
    /\ close_pc = "closing"
    /\ _session' = 0
    /\ close_pc' = "idle"
    /\ UNCHANGED <<sessions, fetch, raised>>
    /\ UNCHANGED notApiVars

\* ApiClient.__init__: self._session = None.
ApiAtRest ==
    /\ _session = 0
    /\ sessions = <<>>
    /\ close_pc = "idle"
    /\ fetch = NoFetch
    /\ raised = NoRaise

InitApi == ApiAtRest

NextApi ==
    \/ _fetch
    \/ close_session
    \/ close_session_resumed
    \/ \E raw \in RawBodies, status \in HttpStatus : raise_error_call(raw, status)

\* ------------------------------------------ Binance REST client: base URLs
\* constants.py BinanceAccountType
BinanceAccountType ==
    {"SPOT", "MARGIN", "ISOLATED_MARGIN", "USD_M_FUTURE", "COIN_M_FUTURE",
     "PORTFOLIO_MARGIN", "SPOT_TESTNET", "USD_M_FUTURE_TESTNET", "COIN_M_FUTURE_TESTNET"}

\* BinanceAccountType.base_url: each member has a URL of its own, that of a
\* *_TESTNET member being a testnet host.
base_url(member) ==
    [of  |-> member,
     net |-> IF member \in {"SPOT_TESTNET", "USD_M_FUTURE_TESTNET", "COIN_M_FUTURE_TESTNET"}
             THEN "testnet" ELSE "production"]

\* a function that ends without a return statement returns None
NoUrl == [of |-> "None", net |-> "None"]

\* rest_api.py _get_base_url, lines 92-110
_get_base_url(testnet, account_type) ==
    IF account_type = "SPOT"
    THEN IF testnet THEN base_url("SPOT_TESTNET") ELSE base_url("SPOT")
    ELSE IF account_type = "MARGIN" THEN base_url("MARGIN")
    ELSE IF account_type = "ISOLATED_MARGIN" THEN base_url("ISOLATED_MARGIN")
    ELSE IF account_type = "USD_M_FUTURE"
    THEN IF testnet THEN base_url("USD_M_FUTURE_TESTNET") ELSE base_url("USD_M_FUTURE")
    ELSE IF account_type = "COIN_M_FUTURE"
    THEN IF testnet THEN base_url("COIN_M_FUTURE_TESTNET") ELSE base_url("COIN_M_FUTURE")
    ELSE IF account_type = "PORTFOLIO_MARGIN" THEN base_url("PORTFOLIO_MARGIN")
    ELSE NoUrl

\* An endpoint method (rest_api.py 112-290): the base URL of its account
\* type is taken and the request goes to it.
BinanceRequest(account_type) ==
    /\ UNCHANGED notUrlVars
    /\ Len(url_requests) < MaxRequests
    /\ url_requests' = Append(url_requests,
            [account_type |-> account_type,
             base_url |-> _get_base_url(url_testnet, account_type)])
    /\ UNCHANGED url_testnet

UrlAtRest ==
    /\ url_testnet = FALSE
    /\ url_requests = <<>>

\* BinanceApiClient.__init__ with either value of testnet
InitUrl ==
    /\ url_testnet \in BOOLEAN
    /\ url_requests = <<>>

NextUrl ==
    \E account_type \in BinanceAccountType : BinanceRequest(account_type)

\* ------------------------------------------------------ InstrumentId.from_str
\* A symbol is a string, written here as the sequence of its pieces: runs of
\* characters cut so that "USD", "-", "/" and "." are pieces of their own
\* ("BTCUSDT-PERP.BINANCE" is BTC USD T - PERP . BINANCE).
Pieces ==
    [BTC |-> <<"BTC">>, ETH |-> <<"ETH">>,
     USDT |-> <<"USD", "T">>, USDC |-> <<"USD", "C">>, BUSD |-> <<"B", "USD">>,
     USD |-> <<"USD">>]

\* constants.py ExchangeType, by the upper-case venue of a symbol.
ExchangeType == [BINANCE |-> "binance", OKX |-> "okx", BYBIT |-> "bybit"]

\* The symbols of the normalised grammar: BASE/QUOTE or BASEQUOTE, then
\* nothing, -PERP or a date, then .VENUE.
SymbolParts ==
    [base : {"BTC", "ETH"}, quote : {"USDT", "USDC", "BUSD", "USD"},
     slash : BOOLEAN, suffix : {"", "PERP", "241227"}, venue : DOMAIN ExchangeType]

symbol_of(parts) ==
    Pieces[parts.base]
    \o (IF parts.slash THEN <<"/">> ELSE <<>>)
    \o Pieces[parts.quote]
    \o (IF parts.suffix = "" THEN <<>> ELSE <<"-", parts.suffix>>)
    \o <<".", parts.venue>>

\* str.split(sep): the runs of pieces between the separators.
RECURSIVE split(_, _)
split(str, sep) ==
    IF \A i \in DOMAIN str : str[i] # sep THEN <<str>>
    ELSE LET at == CHOOSE i \in DOMAIN str :
                      /\ str[i] = sep
                      /\ \A j \in 1..(i - 1) : str[j] # sep
         IN <<SubSeq(str, 1, at - 1)>> \o split(SubSeq(str, at + 1, Len(str)), sep)

\* sep in str
contains(str, sep) == \E i \in DOMAIN str : str[i] = sep

\* str.endswith("USD"), "USD" being a piece of its own.
endswith(str, piece) == str # <<>> /\ str[Len(str)] = piece

NoInstrumentId == [symbol |-> <<>>, exchange |-> "none", type |-> "none"]

ValueError == [symbol |-> <<>>, exchange |-> "ValueError", type |-> "ValueError"]

\* from_str, lines 49-56: the type read off the part before the dot.
from_str_type(symbol_prefix) ==
    IF contains(symbol_prefix, "-")
    THEN IF endswith(split(symbol_prefix, "-")[1], "USD") THEN "INVERSE" ELSE "LINEAR"
    ELSE "SPOT"

\* InstrumentId.from_str.  The two unpackings raise ValueError when the
\* symbol has not exactly one dot, or its first part more than one hyphen;
\* ExchangeType(...) raises it for a venue that is no member.
from_str(symbol) ==
    LET dot == split(symbol, ".") IN
    IF Len(dot) # 2 THEN ValueError
    ELSE LET symbol_prefix == dot[1]
             exchange == dot[2]
         IN IF contains(symbol_prefix, "-") /\ Len(split(symbol_prefix, "-")) # 2
            THEN ValueError
            ELSE IF Len(exchange) # 1 \/ exchange[1] \notin DOMAIN ExchangeType
            THEN ValueError
            ELSE [symbol |-> symbol, exchange |-> ExchangeType[exchange[1]],
                  type |-> from_str_type(symbol_prefix)]

InstrumentId_from_str ==
    /\ instrument_id' = from_str(symbol_of(symbol_parts))
    /\ UNCHANGED symbol_parts
    /\ UNCHANGED notInstVars

InstAtRest ==
    /\ symbol_parts = [base |-> "BTC", quote |-> "USDT", slash |-> FALSE, suffix |-> "",
                       venue |-> "BINANCE"]
    /\ instrument_id = NoInstrumentId

\* from_str is given any symbol of the grammar.
InitInst ==
    /\ symbol_parts \in SymbolParts
    /\ instrument_id = NoInstrumentId

NextInst == InstrumentId_from_str

\* ---------------------------------------- OKX public connector: market data
\* A decoded channel message: its channel, whether the market catalogue holds
\* its instId, and its data items, each well-formed or with a field float()
\* or int() cannot read.
MarketDataChannels == {"bbo-tbt", "trades"}

MarketDataFrames ==
    [channel : MarketDataChannels, instId_known : BOOLEAN,
     data : UNION {[1..n -> {"ok", "malformed"}] : n \in FrameSizes}]

\* The for loop of a handler from item i on: one publish per item, in the
\* order of the items; a malformed item raises ValueError and ends the loop.
RECURSIVE publish_each(_, _, _, _)
publish_each(k, topic, data, i) ==
    IF i > Len(data) \/ data[i] = "malformed" THEN <<>>
    ELSE <<[frame |-> k, item |-> i, topic |-> topic]>>
         \o publish_each(k, topic, data, i + 1)

\* the loop of a handler run over the items from the last to the first
RECURSIVE publish_each_backwards(_, _, _, _)
publish_each_backwards(k, topic, data, i) ==
    IF i < 1 \/ data[i] = "malformed" THEN <<>>
    ELSE <<[frame |-> k, item |-> i, topic |-> topic]>>
         \o publish_each_backwards(k, topic, data, i - 1)

_handle_bbo_tbt_backwards(k, msg) ==
    IF ~msg.instId_known THEN <<>>
    ELSE publish_each_backwards(k, "bookl1", msg.data, Len(msg.data))

\* _handle_bbo_tbt on frame k: what it publishes.  self._market_id[id] raises
\* KeyError before the loop for an instId that is not known.
_handle_bbo_tbt(k, msg) ==
    IF ~msg.instId_known THEN <<>>
    ELSE publish_each(k, "bookl1", msg.data, 1)

\* _handle_trade on frame k.
_handle_trade(k, msg) ==
    IF ~msg.instId_known THEN <<>>
    ELSE publish_each(k, "trade", msg.data, 1)

\* OkxPublicConnector._ws_msg_handler, lines 195-201: dispatch on the channel.
dispatch_channel(k, msg) ==
    IF msg.channel = "bbo-tbt" THEN _handle_bbo_tbt(k, msg)
    ELSE _handle_trade(k, msg)

\* The peer's next frame has been read off the connection.
FrameArrives(msg) ==
    /\ Len(ws_frames) < MaxFrames
    /\ ws_frames' = Append(ws_frames, msg)
    /\ UNCHANGED <<ws_delivered, bus>>
    /\ UNCHANGED notBusVars

\* Listener.on_ws_frame for the oldest frame not yet delivered: the callback
\* and the handler under it are plain calls, so every publish of the frame is
\* made before on_ws_frame returns; what a handler raises is caught there.
Listener_on_ws_frame ==
    /\ ws_delivered < Len(ws_frames)
    /\ ws_delivered' = ws_delivered + 1
    /\ bus' = bus \o dispatch_channel(ws_delivered + 1, ws_frames[ws_delivered + 1])
    /\ UNCHANGED ws_frames
    /\ UNCHANGED notBusVars

BusAtRest ==
    /\ ws_frames = <<>>
    /\ ws_delivered = 0
    /\ bus = <<>>

InitBus == BusAtRest

NextBus ==
    \/ \E msg \in MarketDataFrames : FrameArrives(msg)
    \/ Listener_on_ws_frame

\* ------------------------- OKX public connector: the two message handlers
\* A channel name in pieces: "candle1m" is <<"candle", "1m">>.
StreamChannels ==
    {<<"bbo-tbt">>, <<"trades">>, <<"candle", "1m">>, <<"candle", "1H">>, <<"tickers">>}

\* str.startswith over the pieces of a name
startswith(name, prefix) == Len(name) >= 1 /\ name[1] = prefix

\* OkxWsGeneralMsg: an event message (subscribe, login, error) has an event
\* and no data; a channel message has data and event None.
EventFrames ==
    [event : {"subscribe", "login", "error"}, channel : StreamChannels,
     instId_known : {TRUE}, data : {<<>>}]

DataFrames ==
    [event : {"None"}, channel : StreamChannels, instId_known : BOOLEAN,
     data : UNION {[1..n -> {"ok", "malformed"}] : n \in FrameSizes}]

is_event_msg(msg) == msg.event # "None"

\* connector.py _handle_event_msg 205-211: the three events are logged.
_handle_event_msg(msg) == <<>>

\* a handler that publishes the last candle of the frame only
_handle_kline_last_only(k, msg) ==
    IF ~msg.instId_known \/ msg.data[Len(msg.data)] = "malformed" THEN <<>>
    ELSE <<[frame |-> k, item |-> Len(msg.data), topic |-> "kline"]>>

\* connector.py _handle_kline 213-235: the instId is looked up (KeyError when
\* unknown), then one Kline is published per element of msg.data.
_handle_kline(k, msg) ==
    IF ~msg.instId_known THEN <<>>
    ELSE publish_each(k, "kline", msg.data, 1)

\* connector.py _ws_msg_handler 185-203 after the pong check
_ws_msg_handler_public(k, msg) ==
    IF is_event_msg(msg) THEN _handle_event_msg(msg)
    ELSE IF msg.channel = <<"bbo-tbt">> THEN _handle_bbo_tbt(k, msg)
    ELSE IF msg.channel = <<"trades">> THEN _handle_trade(k, msg)
    ELSE IF startswith(msg.channel, "candle") THEN _handle_kline(k, msg)
    ELSE <<>>

\* connector.py _business_ws_msg_handler 169-183 after the pong check
_business_ws_msg_handler(k, msg) ==
    IF is_event_msg(msg) THEN _handle_event_msg(msg)
    ELSE IF startswith(msg.channel, "candle") THEN _handle_kline(k, msg)
    ELSE <<>>

NoPubFrame ==
    [event |-> "None", channel |-> <<"none">>, instId_known |-> FALSE, data |-> <<>>]

\* A frame of the public connection goes through _ws_msg_handler.
PublicFrame(msg) ==
    /\ UNCHANGED notPubVars
    /\ pub_stream' = "public"
    /\ pub_frame' = msg
    /\ pub_events' = _ws_msg_handler_public(1, msg)

\* A frame of the business connection goes through _business_ws_msg_handler.
BusinessFrame(msg) ==
    /\ UNCHANGED notPubVars
    /\ pub_stream' = "business"
    /\ pub_frame' = msg
    /\ pub_events' = _business_ws_msg_handler(1, msg)

PubAtRest ==
    /\ pub_stream = "none"
    /\ pub_frame = NoPubFrame
    /\ pub_events = <<>>

InitPub == PubAtRest

NextPub ==
    \/ \E msg \in EventFrames \cup DataFrames : PublicFrame(msg)
    \/ \E msg \in EventFrames \cup DataFrames : BusinessFrame(msg)

\* --------------------------------- OKX private connector: channel frames
\* A decoded frame of a private channel: each item of its data list is one
\* the handler can turn into an Order, Position or balance list, one whose
\* instId the market catalogue does not hold (orders and positions), or one
\* with a number Decimal() or float() cannot read.
PrivateChannels == {"orders", "positions", "account"}

ItemKinds(channel) ==
    IF channel = "account" THEN {"ok", "malformed"}
    ELSE {"ok", "unknown_instId", "malformed"}

PrivateFrames ==
    UNION {[channel : {ch}, data : UNION {[1..n -> ItemKinds(ch)] : n \in FrameSizes}]
               : ch \in PrivateChannels}

\* The for loop of _handle_orders (418-444), _handle_positions (450-480) and
\* _handle_account (486-488) from item i on: the item is looked up and
\* converted, then sent to "okx.order" or applied to the cache, before the
\* next item is looked at; KeyError or a conversion error ends the loop.
RECURSIVE handle_each(_, _, _, _)
handle_each(k, channel, data, i) ==
    IF i > Len(data) \/ data[i] # "ok" THEN <<>>
    ELSE <<[frame |-> k, item |-> i, channel |-> channel]>>
         \o handle_each(k, channel, data, i + 1)

\* connector.py _ws_msg_handler 395-413, channel message: dispatch on the
\* channel; the handlers' KeyError and conversion errors are not caught here.
PrivateFrame(msg) ==
    /\ UNCHANGED notPrivVars
    /\ Len(priv_frames) < MaxPrivFrames
    /\ priv_frames' = Append(priv_frames, msg)
    /\ priv_applied' = priv_applied \o handle_each(Len(priv_frames) + 1, msg.channel, msg.data, 1)

PrivAtRest ==
    /\ priv_frames = <<>>
    /\ priv_applied = <<>>

InitPriv == PrivAtRest

NextPriv ==
    \E msg \in PrivateFrames : PrivateFrame(msg)

\* ------------------------------------ OKX public connector: _request_klines
\* Number of bars a venue holds at most.
MaxBars == 3

\* sys.maxsize, above every start time that is followed.
maxsize == MaxTime + MaxBars + MaxBars + 2

\* end_time_ms = int(end_time) if end_time is not None else sys.maxsize;
\* -1 stands for None.
end_time_ms_of(end_time) == IF end_time = 0 - 1 THEN maxsize ELSE end_time

NoBatch == [seen |-> FALSE, len |-> 0, first_start |-> 0, next_start_time |-> 0]

\* Line 123: "No more bars to fetch".
no_more_bars(limit, len, next_start_time, end_time_ms) ==
    (limit # 0 /\ len < limit) \/ next_start_time >= end_time_ms

\* _request_klines up to its first request.
_request_klines(limit, start_time, end_time) ==
    /\ kl_pc \in {"idle", "returned"}
    /\ kl_limit' = limit
    /\ kl_end_time_ms' = end_time_ms_of(end_time)
    /\ kl_start_time' = start_time
    /\ kl_batch' = NoBatch
    /\ kl_pc' = "requesting"
    /\ UNCHANGED notKlVars

\* The venue answers the request that is out with a batch of len candles, the
\* first of them starting at first_start; the loop body runs up to the next
\* request or the return.
candles_response(len, first_start) ==
    /\ kl_pc = "requesting"
    /\ len <= kl_limit
    /\ IF len = 0
       THEN /\ kl_batch' = [seen |-> TRUE, len |-> 0, first_start |-> 0,
                            next_start_time |-> 0]
            /\ kl_pc' = "returned"
            /\ UNCHANGED kl_start_time
       ELSE LET next_start_time == first_start + 1 IN
            /\ kl_batch' = [seen |-> TRUE, len |-> len, first_start |-> first_start,
                            next_start_time |-> next_start_time]
            /\ IF no_more_bars(kl_limit, len, next_start_time, kl_end_time_ms)
               THEN /\ kl_pc' = "returned"
                    /\ UNCHANGED kl_start_time
               ELSE /\ kl_pc' = "requesting"
                    /\ kl_start_time' = next_start_time
    /\ UNCHANGED <<kl_limit, kl_end_time_ms>>
    /\ UNCHANGED notKlVars

KlAtRest ==
    /\ kl_limit = 0
    /\ kl_end_time_ms = 0
    /\ kl_start_time = 0 - 1
    /\ kl_batch = NoBatch
    /\ kl_pc = "idle"

InitKl == KlAtRest

NextKl ==
    \/ \E limit \in 1..MaxLimit, start_time \in (0 - 1)..MaxTime,
          end_time \in (0 - 1)..MaxTime :
          _request_klines(limit, start_time, end_time)
    \/ \E len \in 0..MaxLimit, first_start \in 0..MaxTime :
          candles_response(len, first_start)

\* ------------------- OKX public connector: request_klines against a venue
\* The same loop, followed with the candles themselves: the venue holds a
\* finite set of candles, a candle is its start time, and every request is
\* answered with a page of those candles.

\* Start times of the venue's bars: one interval is two milliseconds, so the
\* millisecond after a start is never a start.
BarStarts == {i + i : i \in 0..(MaxBars - 1)}

\* Arguments start_time and end_time: -1 for None, else a millisecond.
KwTimes == (0 - 1)..(MaxBars + MaxBars)

\* How a venue fills a page (the limit oldest or the limit newest candles of
\* those asked for, or any of them) and how it orders it; a venue that fills
\* its pages in no fixed way orders them in no fixed way.
VenuePicks == {"oldest", "newest", "any"}
VenueOrders == {"oldest_first", "newest_first", "any"}
Venues ==
    {v \in [candles : SUBSET BarStarts, pick : VenuePicks, order : VenueOrders] :
        v.pick = "any" <=> v.order = "any"}
NoVenue == [candles |-> {}, pick |-> "any", order |-> "any"]

\* The candles a request asks for: before=start_time keeps the candles newer
\* than start_time, after=end_time those older than end_time; None drops the
\* filter.
Eligible(candles, before, after) ==
    {c \in candles : c > before /\ (after = 0 - 1 \/ c < after)}

Min2(a, b) == IF a < b THEN a ELSE b

\* The orderings of a set of candles.
Orderings(S) ==
    {q \in [1..Cardinality(S) -> S] : \A i, j \in DOMAIN q : i # j => q[i] # q[j]}
OldestFirst(S) == CHOOSE q \in Orderings(S) : \A i, j \in DOMAIN q : i < j => q[i] < q[j]
NewestFirst(S) == CHOOSE q \in Orderings(S) : \A i, j \in DOMAIN q : i < j => q[i] > q[j]

\* The pages the venue may answer a request with: at most limit candles, all
\* of them among those asked for.
Pages(venue, limit, before, after) ==
    LET E == Eligible(venue.candles, before, after)
        n == Min2(limit, Cardinality(E))
        full == {S \in SUBSET E : Cardinality(S) = n}
        picked ==
            IF venue.pick = "oldest"
            THEN {S \in full : \A c \in S, d \in E \ S : c < d}
            ELSE IF venue.pick = "newest"
            THEN {S \in full : \A c \in S, d \in E \ S : c > d}
            ELSE {S \in SUBSET E : Cardinality(S) <= n}
    IN  UNION {IF venue.order = "oldest_first" THEN {OldestFirst(S)}
               ELSE IF venue.order = "newest_first" THEN {NewestFirst(S)}
               ELSE Orderings(S) : S \in picked}

\* the cursor set just before the batch's first candle
next_start_time_before_first(klines) == klines[1] - 1

\* Line 116: next_start_time = klines[0].start + 1.
next_start_time_of(klines) == klines[1] + 1

\* request_klines runs _request_klines to completion; this is the call up to
\* its first request. limit, all_klines and the cursor are locals of the
\* call, so a later call starts as the first one does: one call is followed.
request_klines(limit, start_time, end_time) ==
    /\ kw_pc = "idle"
    /\ kw_limit' = limit
    /\ kw_end_time' = end_time
    /\ kw_first_start_time' = start_time
    /\ kw_start_time' = start_time
    /\ kw_klines' = <<>>
    /\ kw_all_klines' = <<>>
    /\ kw_pc' = "requesting"
    /\ UNCHANGED kw_venue
    /\ UNCHANGED notKwVars

\* The venue answers get_api_v5_market_candles(limit, after=end_time,
\* before=start_time) with the page klines; the loop body runs up to the next
\* request or the return.
get_api_v5_market_candles(klines) ==
    /\ kw_pc = "requesting"
    /\ klines \in Pages(kw_venue, kw_limit, kw_start_time, kw_end_time)
    /\ kw_klines' = klines
    /\ kw_all_klines' = kw_all_klines \o klines
    /\ IF klines = <<>>
       THEN /\ kw_pc' = "returned"
            /\ UNCHANGED kw_start_time
       ELSE LET next_start_time == next_start_time_of(klines) IN
            IF no_more_bars(kw_limit, Len(klines), next_start_time,
                            end_time_ms_of(kw_end_time))
            THEN /\ kw_pc' = "returned"
                 /\ UNCHANGED kw_start_time
            ELSE /\ kw_pc' = "requesting"
                 /\ kw_start_time' = next_start_time
    /\ UNCHANGED <<kw_venue, kw_limit, kw_end_time, kw_first_start_time>>
    /\ UNCHANGED notKwVars

KwAtRest ==
    /\ kw_venue = NoVenue
    /\ kw_limit = 0
    /\ kw_end_time = 0 - 1
    /\ kw_first_start_time = 0 - 1
    /\ kw_start_time = 0 - 1
    /\ kw_klines = <<>>
    /\ kw_all_klines = <<>>
    /\ kw_pc = "idle"

\* The connector faces one venue, any of Venues.
InitKw ==
    /\ kw_venue \in Venues
    /\ kw_limit = 0
    /\ kw_end_time = 0 - 1
    /\ kw_first_start_time = 0 - 1
    /\ kw_start_time = 0 - 1
    /\ kw_klines = <<>>
    /\ kw_all_klines = <<>>
    /\ kw_pc = "idle"

\* Every ordering of at most MaxLimit bars.
KwPages == UNION {Orderings(S) : S \in {T \in SUBSET BarStarts : Cardinality(T) <= MaxLimit}}

NextKw ==
    \/ \E limit \in 1..MaxLimit, start_time \in KwTimes, end_time \in KwTimes :
          request_klines(limit, start_time, end_time)
    \/ \E klines \in KwPages : get_api_v5_market_candles(klines)

\* ------------------------------------------------------ Strategy._init_core
\* The endpoints and topics of _init_core, in the order of its calls.
StrategyTopics == <<"trade", "bookl1", "kline">>

StrategyEndpoints ==
    <<"pending", "accepted", "partially_filled", "filled", "canceling", "canceled",
      "failed", "cancel_failed", "balance">>

\* Endpoints the connectors' order messages go to, registered by others.
VenueEndpoints == {"okx.order", "binance.order", "bybit.order"}

\* MessageBus.register: one handler per endpoint; an endpoint that has one
\* already is an error and the registry is left as it was.
msgbus_register(endpoints, endpoint, owner) ==
    IF \E e \in endpoints : e.endpoint = endpoint
    THEN [endpoints |-> endpoints, raised |-> "already registered"]
    ELSE [endpoints |-> endpoints \cup {[endpoint |-> endpoint, owner |-> owner]},
          raised |-> "none"]

\* The register calls of _init_core from the i-th on; the first that raises
\* ends the call.
RECURSIVE register_from(_, _)
register_from(endpoints, i) ==
    IF i > Len(StrategyEndpoints) THEN [endpoints |-> endpoints, raised |-> "none"]
    ELSE LET r == msgbus_register(endpoints, StrategyEndpoints[i], "strategy") IN
         IF r.raised # "none" THEN r ELSE register_from(r.endpoints, i + 1)

\* MessageBus.subscribe: one more subscription of the handler to the topic.
msgbus_subscribe(subscriptions, topic) ==
    [subscriptions EXCEPT ![topic] = @ + 1]

\* the guard is not there
returns_at_once_never(initialized) == FALSE

\* if self._initialized: return
returns_at_once(initialized) == initialized

\* Strategy._init_core: a plain function, run as one step.
_init_core ==
    /\ init_core_calls < MaxInitCalls
    /\ init_core_calls' = init_core_calls + 1
    /\ IF returns_at_once(_initialized)
       THEN /\ init_core_raised' = "none"
            /\ UNCHANGED <<_initialized, bus_endpoints, bus_subscriptions>>
       ELSE LET subscribed ==
                    msgbus_subscribe(msgbus_subscribe(msgbus_subscribe(
                        bus_subscriptions, StrategyTopics[1]), StrategyTopics[2]),
                        StrategyTopics[3])
                registered == register_from(bus_endpoints, 1)
            IN /\ bus_subscriptions' = subscribed
               /\ bus_endpoints' = registered.endpoints
               /\ init_core_raised' = registered.raised
               /\ _initialized' = IF registered.raised = "none" THEN TRUE
                                  ELSE _initialized
    /\ UNCHANGED bus_other_subscribers
    /\ UNCHANGED notCoreVars

CoreAtRest ==
    /\ _initialized = FALSE
    /\ bus_endpoints = {}
    /\ bus_subscriptions = [t \in Range(StrategyTopics) |-> 0]
    /\ bus_other_subscribers = {}
    /\ init_core_calls = 0
    /\ init_core_raised = "none"

\* Strategy.__init__, on a bus that other components may have used already.
InitCore ==
    /\ _initialized = FALSE
    /\ \E venues \in SUBSET VenueEndpoints :
          bus_endpoints = {[endpoint |-> e, owner |-> "oms"] : e \in venues}
    /\ bus_subscriptions = [t \in Range(StrategyTopics) |-> 0]
    /\ bus_other_subscribers \in SUBSET Range(StrategyTopics)
    /\ init_core_calls = 0
    /\ init_core_raised = "none"

NextCore == _init_core

\* -------------------------------------------------------------- TWAP engine
\* The engine behind a TWAP submit is the EMS base class; it is written here
\* from the specification's section on the TWAP engine.  Amounts are whole
\* numbers of a unit finer than any precision step; a precision is the number
\* of units in one step.
Precisions == {1, 2}

\* constants.py AlgoOrderStatus
AlgoOrderStatus == {"RUNNING", "CANCELING", "FINISHED", "CANCELED", "FAILED"}

\* AlgoOrder.is_closed
AlgoOrder_is_closed(status) == status \in {"CANCELED", "FAILED", "FINISHED"}

\* Consecutive failed children that fail the parent.
ConsecutiveFailures == 3

\* slice_count = max(1, floor(duration / wait))
slice_count(duration, wait) ==
    IF duration \div wait >= 1 THEN duration \div wait ELSE 1

\* amount_to_precision(x, floor) of x = amount / count: the largest multiple
\* of the precision step that is not above x.
slice_amount(amount, count, precision) ==
    (amount \div (count * precision)) * precision

\* the last slice is a slice like the others
last_slice_amount_as_others(amount, count, slice) == slice

\* The final slice takes the truncation residual.
last_slice_amount(amount, count, slice) == slice + (amount - count * slice)

twap_slices(amount, duration, wait, precision) ==
    LET count == slice_count(duration, wait)
        slice == slice_amount(amount, count, precision)
    IN [i \in 1..count |->
           IF i < count THEN slice ELSE last_slice_amount(amount, count, slice)]

NoAlgo == [status |-> "none", amount |-> 0, duration |-> 0, wait |-> 0,
           precision |-> 0, slices |-> <<>>]

OpenChild == {"OPEN", "CANCELING"}

TerminalChild == {"FILLED", "CANCELED", "FAILED"}

\* The worker takes a TWAP submit off the queue: the slices are computed and
\* the parent is created RUNNING, without children.
TwapSubmit(amount, duration, wait, precision) ==
    /\ algo.status = "none"
    /\ algo' = [status |-> "RUNNING", amount |-> amount, duration |-> duration,
                wait |-> wait, precision |-> precision,
                slices |-> twap_slices(amount, duration, wait, precision)]
    /\ algo_children' = <<>>
    /\ algo_event' = "TWAP"
    /\ UNCHANGED notTwapVars

\* The supervisor, after a wait: the child CREATE of the next slice.
TwapSlice ==
    /\ algo.status = "RUNNING"
    /\ Len(algo_children) < Len(algo.slices)
    /\ algo_children' = Append(algo_children, "OPEN")
    /\ algo_event' = "CREATE"
    /\ UNCHANGED algo
    /\ UNCHANGED notTwapVars

\* The last ConsecutiveFailures children all failed.
failed_in_a_row(children) ==
    /\ Len(children) >= ConsecutiveFailures
    /\ \A i \in (Len(children) - ConsecutiveFailures + 1)..Len(children) :
          children[i] = "FAILED"

\* An update of child i: it fills, fails or is canceled.  A running parent
\* whose last children failed in a row becomes FAILED.
ChildUpdate(i, status) ==
    /\ i \in DOMAIN algo_children
    /\ algo_children[i] \in OpenChild
    /\ algo_children[i] = "CANCELING" => status # "FAILED"
    /\ algo_children' = [algo_children EXCEPT ![i] = status]
    /\ algo' = IF algo.status = "RUNNING" /\ failed_in_a_row(algo_children')
               THEN [algo EXCEPT !.status = "FAILED"]
               ELSE algo
    /\ algo_event' = "child update"
    /\ UNCHANGED notTwapVars

\* The supervisor stops: every slice was issued and every child is closed.
TwapFinished ==
    /\ algo.status = "RUNNING"
    /\ Len(algo_children) = Len(algo.slices)
    /\ \A i \in DOMAIN algo_children : algo_children[i] \in TerminalChild
    /\ algo' = [algo EXCEPT !.status = "FINISHED"]
    /\ algo_event' = "finished"
    /\ UNCHANGED algo_children
    /\ UNCHANGED notTwapVars

\* the children are left as they are
cancel_children_none(children) == children

\* A CANCEL for every child that is still open.
cancel_children(children) ==
    [i \in DOMAIN children |-> IF children[i] = "OPEN" THEN "CANCELING" ELSE children[i]]

\* The worker takes a CANCEL_TWAP off the queue.  It acts on a RUNNING parent:
\* the parent is CANCELING, no slice is scheduled any more, the open children
\* are canceled.
CancelTwap ==
    /\ algo.status = "RUNNING"
    /\ algo' = [algo EXCEPT !.status = "CANCELING"]
    /\ algo_children' = cancel_children(algo_children)
    /\ algo_event' = "CANCEL_TWAP"
    /\ UNCHANGED notTwapVars

\* Every child of a CANCELING parent is terminal: the parent is CANCELED.
TwapCanceled ==
    /\ algo.status = "CANCELING"
    /\ \A i \in DOMAIN algo_children : algo_children[i] \in TerminalChild
    /\ algo' = [algo EXCEPT !.status = "CANCELED"]
    /\ algo_event' = "canceled"
    /\ UNCHANGED algo_children
    /\ UNCHANGED notTwapVars

TwapAtRest ==
    /\ algo = NoAlgo
    /\ algo_children = <<>>
    /\ algo_event = "none"

InitTwap == TwapAtRest

NextTwap ==
    \/ \E amount \in 1..MaxAmount, duration \in 1..MaxDuration, wait \in 1..MaxWait,
          precision \in Precisions : TwapSubmit(amount, duration, wait, precision)
    \/ TwapSlice
    \/ \E i \in 1..MaxDuration, status \in TerminalChild : ChildUpdate(i, status)
    \/ TwapFinished
    \/ CancelTwap
    \/ TwapCanceled

OrdersAtRest ==
    /\ mem_orders = [u \in Uuids |-> NoOrder]
    /\ mem_open_orders = {}
    /\ mem_symbol_open_orders = {}
    /\ status_path = [u \in Uuids |-> <<OrderSubmit_status>>]
    /\ last_attempt = NoAttempt

InitOrders == OrdersAtRest

NextOrders ==
    \/ \E u \in Uuids, posted \in BOOLEAN : CreateOrderResult(u, posted)
    \/ \E u \in Uuids, posted \in BOOLEAN : CancelOrderResult(u, posted)
    \/ \E frame \in Frames : _handle_orders(frame)

\* ----------------------------------------------------------- order registry
\* The submits whose create is followed and the order ids the venue hands
\* out; a synthesized uuid is a number above every submit's uuid.
RegUuids == {1, 2}
VenueIds == {1, 2}

NoLookup == [pc |-> "none", uuid |-> 0]

\* connector.py create_order 574-576: the POST is awaited; the venue creates
\* the order, under an id of its own, when the request reaches it.
PostSent(u, v) ==
    /\ UNCHANGED notRegVars
    /\ reg_post[u] = "idle"
    /\ venue_owner[v] = 0
    /\ reg_post' = [reg_post EXCEPT ![u] = "posting"]
    /\ venue_owner' = [venue_owner EXCEPT ![v] = u]
    /\ UNCHANGED <<uuid_to_order_id, order_id_to_uuid, reg_lookup, reg_synthesized>>

\* Registry.register_order: both directions of the map.
register_order(u, v) ==
    /\ uuid_to_order_id' = [uuid_to_order_id EXCEPT ![u] = v]
    /\ order_id_to_uuid' = [order_id_to_uuid EXCEPT ![v] = u]

\* A lookup that finds the id unregistered and gives up at once.
lookup_waits_never(registered) == FALSE

\* Registry lookup by venue id: it suspends when the id is not registered.
lookup_waits(registered) == ~registered

\* connector.py create_order 574-593: the POST answered, the Order returned
\* is PENDING with id = ordId; the EMS enters (uuid, ordId) in the registry,
\* which completes a lookup suspended on that id.
PostAnswered(u) ==
    /\ UNCHANGED notRegVars
    /\ reg_post[u] = "posting"
    /\ \E v \in VenueIds :
          /\ venue_owner[v] = u
          /\ register_order(u, v)
          /\ reg_lookup' = IF reg_lookup[v].pc = "waiting"
                           THEN [reg_lookup EXCEPT ![v] = [pc |-> "matched", uuid |-> u]]
                           ELSE reg_lookup
    /\ reg_post' = [reg_post EXCEPT ![u] = "registered"]
    /\ UNCHANGED <<venue_owner, reg_synthesized>>

\* connector.py create_order 594-612: the POST raised (here after the venue
\* took the order); the Order returned is FAILED, nothing is registered.
PostRaised(u) ==
    /\ UNCHANGED notRegVars
    /\ reg_post[u] = "posting"
    /\ reg_post' = [reg_post EXCEPT ![u] = "failed"]
    /\ UNCHANGED <<venue_owner, uuid_to_order_id, order_id_to_uuid, reg_lookup, reg_synthesized>>

\* The new local uuid of an order update whose venue id stayed unknown.
synthesize(n) == Cardinality(RegUuids) + n + 1

\* connector.py _handle_orders 415-444: an update of the venue's order v is
\* sent to "okx.order" with id = ordId and no uuid; the handler looks the id
\* up in the registry and suspends when it is not there.
WsOrderUpdate(v) ==
    /\ UNCHANGED notRegVars
    /\ venue_owner[v] # 0
    /\ reg_lookup[v].pc # "waiting"
    /\ reg_synthesized < MaxSynth
    /\ IF lookup_waits(order_id_to_uuid[v] # 0)
       THEN /\ reg_lookup' = [reg_lookup EXCEPT ![v] = [pc |-> "waiting", uuid |-> 0]]
            /\ UNCHANGED reg_synthesized
       ELSE IF order_id_to_uuid[v] # 0
       THEN /\ reg_lookup' = [reg_lookup EXCEPT ![v] =
                                 [pc |-> "matched", uuid |-> order_id_to_uuid[v]]]
            /\ UNCHANGED reg_synthesized
       ELSE /\ reg_lookup' = [reg_lookup EXCEPT ![v] =
                                 [pc |-> "synthesized", uuid |-> synthesize(reg_synthesized)]]
            /\ reg_synthesized' = reg_synthesized + 1
    /\ UNCHANGED <<reg_post, venue_owner, uuid_to_order_id, order_id_to_uuid>>

\* registration_timeout passed with the id still unregistered: the lookup
\* returns a new local uuid ("reconciled unknown order").
RegistrationTimeout(v) ==
    /\ UNCHANGED notRegVars
    /\ reg_lookup[v].pc = "waiting"
    /\ reg_lookup' = [reg_lookup EXCEPT ![v] =
                         [pc |-> "synthesized", uuid |-> synthesize(reg_synthesized)]]
    /\ reg_synthesized' = reg_synthesized + 1
    /\ UNCHANGED <<reg_post, venue_owner, uuid_to_order_id, order_id_to_uuid>>

RegAtRest ==
    /\ reg_post = [u \in RegUuids |-> "idle"]
    /\ venue_owner = [v \in VenueIds |-> 0]
    /\ uuid_to_order_id = [u \in RegUuids |-> 0]
    /\ order_id_to_uuid = [v \in VenueIds |-> 0]
    /\ reg_lookup = [v \in VenueIds |-> NoLookup]
    /\ reg_synthesized = 0

InitReg == RegAtRest

NextReg ==
    \/ \E u \in RegUuids, v \in VenueIds : PostSent(u, v)
    \/ \E u \in RegUuids : PostAnswered(u)
    \/ \E u \in RegUuids : PostRaised(u)
    \/ \E v \in VenueIds : WsOrderUpdate(v)
    \/ \E v \in VenueIds : RegistrationTimeout(v)

\* ------------------------------------------------------------ order claims
\* The FSM diagram of the order lifecycle, as the specification draws it.
FsmDiagram ==
    ({"INITIALIZED"} \X {"PENDING", "FAILED"})
    \cup ({"PENDING"} \X {"ACCEPTED", "PARTIALLY_FILLED", "FILLED", "CANCELING",
                          "CANCELED", "CANCEL_FAILED"})
    \cup ({"CANCELING"} \X {"CANCELED", "PARTIALLY_FILLED", "FILLED"})
    \cup ({"ACCEPTED"} \X {"PARTIALLY_FILLED", "FILLED", "CANCELING", "CANCELED",
                           "EXPIRED", "CANCEL_FAILED"})
    \cup ({"PARTIALLY_FILLED"} \X {"PARTIALLY_FILLED", "FILLED", "CANCELING",
                                   "CANCELED", "EXPIRED", "CANCEL_FAILED"})

TerminalStatus == {"FILLED", "CANCELED", "EXPIRED", "FAILED"}

\* C1: a status change s -> t is accepted by the order FSM if and only if it
\* is an edge of the diagram; every attempted change is accepted exactly when
\* it is an edge, and a rejected change leaves the stored order as it was.
C1_FsmAcceptsExactlyTheDiagram ==
    /\ \A s \in OrderStatus, t \in OrderStatus :
            check_status_transition(s, t) <=> <<s, t>> \in FsmDiagram
    /\ last_attempt # NoAttempt =>
            /\ last_attempt.ok <=> <<last_attempt.from, last_attempt.to>> \in FsmDiagram
            /\ ~last_attempt.ok => mem_orders[last_attempt.uuid] = last_attempt.before
            /\ last_attempt.ok => mem_orders[last_attempt.uuid].status = last_attempt.to

\* C1 witness: a venue update EXPIRED for a CANCELING order was rejected and
\* the order is still the CANCELING record.
C1_Witness ==
    /\ last_attempt.from = "CANCELING" /\ last_attempt.to = "EXPIRED"
    /\ ~last_attempt.ok
    /\ mem_orders[last_attempt.uuid].status = "CANCELING"

IsFsmPath(p) ==
    /\ Len(p) >= 1
    /\ p[1] = "INITIALIZED"
    /\ \A i \in 1..(Len(p) - 1) : <<p[i], p[i + 1]>> \in FsmDiagram

\* C2: for every order, the sequence of statuses stored for it, after any
\* sequence of submit results and venue updates, is a path of the FSM
\* diagram that starts at INITIALIZED (and ends at the stored status).
C2_StatusPathIsFsmWalk ==
    \A u \in Uuids :
        /\ IsFsmPath(status_path[u])
        /\ status_path[u][Len(status_path[u])] = mem_orders[u].status

\* C2 witness: an order that went PENDING, ACCEPTED, PARTIALLY_FILLED.
C2_Witness ==
    \E u \in Uuids :
        status_path[u] = <<"INITIALIZED", "PENDING", "ACCEPTED", "PARTIALLY_FILLED">>

\* C3: once the stored status of an order is terminal, no step changes the
\* stored order, its status path or its membership in the open-order indices.
C3_TerminalIsFinal ==
    [][\A u \in Uuids :
          (Stored(mem_orders[u]) /\ mem_orders[u].status \in TerminalStatus) =>
              /\ mem_orders'[u] = mem_orders[u]
              /\ status_path'[u] = status_path[u]
              /\ (u \in mem_open_orders') <=> (u \in mem_open_orders)
              /\ (u \in mem_symbol_open_orders') <=> (u \in mem_symbol_open_orders)]_vars

\* C3 witness: a second FILLED update was attempted on a FILLED order; the
\* record is the one stored before it and the order is in no open index.
C3_Witness ==
    /\ last_attempt.from = "FILLED" /\ last_attempt.to = "FILLED"
    /\ ~last_attempt.ok
    /\ mem_orders[last_attempt.uuid] = last_attempt.before
    /\ last_attempt.uuid \notin mem_open_orders
    /\ last_attempt.uuid \notin mem_symbol_open_orders

\* C25: after any sequence of applies, a uuid is in the open-order index of
\* the account and in that of the symbol if and only if its order is stored
\* with a status other than FILLED, CANCELED, EXPIRED and FAILED; no uuid is
\* in an open index without being stored.
C25_OpenIndexIsNonTerminalStore ==
    \A u \in Uuids :
        LET live == Stored(mem_orders[u]) /\ mem_orders[u].status \notin TerminalStatus
        IN  /\ (u \in mem_open_orders) <=> live
            /\ (u \in mem_symbol_open_orders) <=> live
            /\ (u \in mem_open_orders \cup mem_symbol_open_orders) => Stored(mem_orders[u])

\* The statuses the FSM accepts after s, and those reached from s in any
\* number of accepted changes.
Successors(s) == {t \in OrderStatus : check_status_transition(s, t)}

RECURSIVE ReachedWithin(_, _)
ReachedWithin(S, n) ==
    IF n = 0 THEN S
    ELSE ReachedWithin(S \cup UNION {Successors(s) : s \in S}, n - 1)

ReachableFrom(s) == ReachedWithin({s}, Cardinality(OrderStatus))

\* C28: an order whose status is not FILLED, CANCELED, EXPIRED or FAILED has
\* at least one status change the FSM accepts, and a terminal status can be
\* reached from its status; no order is left in a non-terminal status with
\* no legal next step.
C28_NonTerminalCanProgress ==
    \A u \in Uuids :
        LET s == mem_orders[u].status
        IN  s \notin TerminalStatus =>
                /\ Successors(s) # {}
                /\ ReachableFrom(s) \cap TerminalStatus # {}

\* -------------------------------------------------------- connector claims
OrderResults == {"PENDING", "FAILED", "CANCELING", "CANCEL_FAILED"}

\* C4: for every input the outgoing operations never raise into the caller
\* and always return an Order; a failed create returns FAILED and a failed
\* cancel returns CANCEL_FAILED.
C4_NeverRaisesAlwaysReturnsOrder ==
    Finished =>
        /\ call.pc = "returned"
        /\ result \in OrderResults
        /\ call.op = "cancel_order" => result \in {"CANCELING", "CANCEL_FAILED"}
        /\ call.op # "cancel_order" => result \in {"PENDING", "FAILED"}

\* C5: each create_order call issues at most one order-placement POST,
\* whether the request succeeds, returns an error status or fails with a
\* network error or timeout: a returned call has posted exactly once, a call
\* that raised before the request has not posted, and no call posts twice.
C5_PlacementAtMostOnce ==
    call.op = "create_order" =>
        /\ posts <= 1
        /\ (call.pc = "returned") => posts = 1
        /\ (call.pc \in {"limiter", "raised"}) => posts = 0

\* C5 witness: a create_order whose POST timed out has returned FAILED
\* after one request.
C5_Witness ==
    /\ call.op = "create_order" /\ call.pc = "returned"
    /\ call.rest = "TimeoutError"
    /\ result = "FAILED" /\ posts = 1

\* ---------------------------------------------------------- specifications
\* The order store under create/cancel results and venue order updates.
\* ------------------------------------------------------------ position claims
\* schema.py Position invariant as the specification states it.
SideMatchesSign(p) ==
    /\ p.side = "LONG" <=> p.signed_amount > 0
    /\ p.side = "SHORT" <=> p.signed_amount < 0
    /\ p.side = "FLAT" <=> p.signed_amount = 0

\* C6: every Position that _init_position or _handle_positions applied to the
\* cache has side LONG iff signed_amount > 0, SHORT iff signed_amount < 0 and
\* FLAT iff signed_amount = 0, for posSide long, short and net and any pos,
\* zero and negative included.
C6_PositionSideMatchesSign ==
    \A s \in Symbols :
        mem_positions[s].stored => SideMatchesSign(mem_positions[s])

\* The mapping of (posSide, pos) the specification gives for a position
\* update; it says nothing of a net position of 0.
MappedAsSpecified(data, position) ==
    /\ data.posSide = "net" =>
          /\ position.signed_amount = data.pos
          /\ data.pos < 0 => position.side = "SHORT"
          /\ data.pos > 0 => position.side = "LONG"
    /\ data.posSide = "long" =>
          /\ position.side = "LONG"
          /\ position.signed_amount = data.pos
    /\ data.posSide = "short" =>
          /\ position.side = "SHORT"
          /\ position.signed_amount = 0 - data.pos

\* C19: a position update leaves in the cache, for each symbol of its data
\* list (from the last element of the symbol, when it comes twice), a position
\* mapped from (posSide, pos) as follows: net gives signed_amount = pos, side
\* SHORT when pos < 0 and LONG when pos > 0; long gives LONG and pos; short
\* gives SHORT and -pos.
C19_PositionUpdateMapping ==
    \A s \in Symbols :
        pos_source[s].op = "_handle_positions" =>
            /\ mem_positions[s].stored
            /\ MappedAsSpecified(pos_source[s], mem_positions[s])

\* A position update with short/1 for one symbol and net/-1 for the other
\* has left short positions of -1 for both.
C19_Witness ==
    /\ pos_source["BTCUSDT-PERP.OKX"] =
          [op |-> "_handle_positions", posSide |-> "short", pos |-> 1]
    /\ pos_source["ETHUSDT-PERP.OKX"] =
          [op |-> "_handle_positions", posSide |-> "net", pos |-> 0 - 1]
    /\ mem_positions["BTCUSDT-PERP.OKX"] = Position("SHORT", 0 - 1)
    /\ mem_positions["ETHUSDT-PERP.OKX"] = Position("SHORT", 0 - 1)

\* C34: the REST snapshot path and the WebSocket path build the same side
\* and signed amount from the same posSide and pos, for every posSide and
\* every pos; so the position the cache holds for a symbol is what either
\* path builds from the element it came from, and the same element coming
\* again by the other path leaves the cached position as it is.
C34_SnapshotAndStreamAgree ==
    /\ \A data \in PositionData : init_position_of(data) = handle_position_of(data)
    /\ \A s \in Symbols :
          pos_source[s] # NoSource =>
              LET data == [instId |-> s, posSide |-> pos_source[s].posSide,
                           pos |-> pos_source[s].pos]
              IN  /\ mem_positions[s] = init_position_of(data)
                  /\ mem_positions[s] = handle_position_of(data)
                  /\ _apply_position(mem_positions, s, init_position_of(data)) = mem_positions
                  /\ _apply_position(mem_positions, s, handle_position_of(data)) = mem_positions

\* One symbol's one-way position of -1 came by the snapshot, the other's by
\* the stream, and the cache holds the same short position for both.
C34_Witness ==
    /\ pos_source["BTCUSDT-PERP.OKX"] = [op |-> "_init_position", posSide |-> "net", pos |-> -1]
    /\ pos_source["ETHUSDT-PERP.OKX"] = [op |-> "_handle_positions", posSide |-> "net", pos |-> -1]
    /\ mem_positions["BTCUSDT-PERP.OKX"] = Position("SHORT", -1)
    /\ mem_positions["ETHUSDT-PERP.OKX"] = Position("SHORT", -1)

\* ----------------------------------------------------------- WebSocket claims
IsPrefix(a, b) ==
    /\ Len(a) <= Len(b)
    /\ \A i \in 1..Len(a) : a[i] = b[i]

NoDuplicates(seq) == \A i, j \in DOMAIN seq : seq[i] = seq[j] => i = j

\* The supervisor finished the replay on a connection that is up and waits
\* for it to go down, every remembered subscription sent on it.
Replayed ==
    /\ connected
    /\ ws_alive
    /\ ws_pc = "wait_disconnected"
    /\ ws_sent = ws_subscriptions

\* C7: on a connection the supervisor opened, the subscribe frames sent are
\* the remembered subscriptions in the order they were first subscribed, each
\* once: at every moment the frames sent so far are a prefix of the
\* remembered list, and they are the whole list once the supervisor waits on
\* the live connection; for every interleaving of subscribe() with the
\* reconnect.
C7_ReplayIsRememberedInOrder ==
    ws_opened_by = "supervisor" =>
        /\ IsPrefix(ws_sent, ws_subscriptions)
        /\ (ws_pc = "wait_disconnected" /\ ws_alive) => ws_sent = ws_subscriptions

\* C8: a subscribe call for a remembered channel sends no frame and leaves
\* the remembered subscriptions as they are; every channel is remembered once
\* and is sent at most once on a connection.
C8_SubscribeIsIdempotent ==
    /\ [](NoDuplicates(ws_subscriptions) /\ NoDuplicates(ws_sent))
    /\ [][(sub_call.pc = "idle" /\ sub_call'.pc = "idle" /\ sub_call' # sub_call)
            => /\ sub_call'.result = "already"
               /\ sub_call'.channel \in Range(ws_subscriptions)
               /\ UNCHANGED <<ws_subscriptions, ws_sent>>]_vars
    /\ [][(sub_call.pc = "idle" /\ sub_call'.pc = "limiter")
            => sub_call'.channel \notin Range(ws_subscriptions)]_vars

\* A repeated subscribe of a channel already sent on the live connection,
\* with both channels remembered, returned without sending.
C8_Witness ==
    /\ sub_call.pc = "idle"
    /\ sub_call.result = "already"
    /\ sub_call.channel \in Range(ws_sent)
    /\ ws_alive
    /\ Len(ws_subscriptions) = 2
    /\ Len(ws_sent) = 2

\* C9: once the supervisor runs, whenever the connection is down the client
\* eventually is connected again with the remembered subscriptions replayed,
\* given that connection attempts eventually succeed; an attempt that fails
\* is followed by the sleep, and the sleep by another attempt.
C9_SupervisorReconnects ==
    /\ (ws_pc # "none" /\ ~ws_alive) ~> Replayed
    /\ [][(ws_pc = "_connect" /\ ws_pc' # "_connect" /\ ~connected') => ws_pc' = "sleep"]_vars
    /\ (ws_pc = "sleep") ~> (ws_pc = "_connect")

\* After a disconnect the supervisor has reconnected and replayed both
\* remembered subscriptions.
C9_Witness ==
    /\ Replayed
    /\ ws_opened_by = "supervisor"
    /\ ws_drops > 0
    /\ Len(ws_subscriptions) = 2

\* C10: after the listener handled a CLOSE frame the client eventually tears
\* the transport down (and the supervisor, by C9, then reconnects); stated
\* for a CLOSE frame on the first connection.
C10_CloseTriggersReconnect ==
    (ws_close_seen /\ ws_drops = 0) ~> ~connected

\* C11: an exception raised while an inbound frame is handled is caught and
\* logged by the listener: none leaves on_ws_frame, handling a frame changes
\* neither the transport nor the supervisor's position, and after a frame
\* whose handling failed the next frame is still delivered.
C11_FrameExceptionsAreContained ==
    /\ [](ws_handled.did # "raised")
    /\ [][ws_handled' # ws_handled
            => UNCHANGED <<ws_transport, ws_alive, ws_pc, ws_subscriptions>>]_vars
    /\ []((ws_handled.did \in {"log_error", "log_DecodeError"} /\ connected /\ ws_alive)
            => ENABLED on_ws_frame([msg_type |-> "TEXT", raw |-> "channel_data"]))

\* A channel message of an unknown instrument made a sub-handler raise
\* KeyError; the listener logged it and the supervisor still waits on the
\* live connection.
C11_Witness ==
    /\ ws_handled = [frame |-> "unknown_instId", did |-> "log_error"]
    /\ ws_pc = "wait_disconnected"
    /\ connected
    /\ ws_alive

\* C18: with an application-level ping payload configured the keepalive
\* sends it as a TEXT frame, never a protocol ping, and an inbound text frame
\* "pong" is reported to the transport as the pong acknowledgement without
\* being decoded or handed to a channel handler.
C18_ApplicationLevelPing ==
    /\ (ws_handled.frame = "keepalive" /\ specific_ping_msg # "None")
            => ws_handled.did = "send_TEXT"
    /\ ws_handled.frame = "pong"
            => ws_handled.did = "notify_user_specific_pong_received"

\* The client is configured with b"ping" and the listener just acknowledged
\* a "pong" text frame.
C18_Witness ==
    /\ specific_ping_msg = "ping"
    /\ ws_handled = [frame |-> "pong", did |-> "notify_user_specific_pong_received"]

\* C30: a send never uses a missing transport: once the client has been
\* connected, a send that resumes after its limiter wait writes its frame to
\* a live transport, whatever happened to the connection while it waited; no
\* frame is written to no transport (AttributeError on None) or to a
\* transport whose connection is down.
C30_SendUsesLiveTransport ==
    [][(ws_pc # "none" /\ sub_call.pc = "limiter" /\ sub_call'.pc = "idle")
          => sub_call'.result = "sent"]_vars

C13_BalanceUpdateReplacesReported ==
    [][\A a \in Assets :
          LET idx == {i \in DOMAIN bal_update' : bal_update'[i].asset = a} IN
          /\ idx = {} => mem_account_balance'[a] = mem_account_balance[a]
          /\ idx # {} => mem_account_balance'[a] =
                            bal_update'[CHOOSE i \in idx : \A j \in idx : j <= i]
          /\ mem_account_balance[a] # NoBalance => mem_account_balance'[a] # NoBalance]_vars

\* The last update named USDT twice and not BTC: USDT holds the second
\* entry and BTC the Balance an earlier update stored.
C13_Witness ==
    /\ Len(bal_update) = 2
    /\ bal_update[1].asset = "USDT"
    /\ bal_update[2].asset = "USDT"
    /\ bal_update[1] # bal_update[2]
    /\ mem_account_balance["USDT"] = bal_update[2]
    /\ mem_account_balance["BTC"] # NoBalance

\* ------------------------------------------------------------ claims C14, C15
HelperSubmitType ==
    [create_order |-> "CREATE", cancel_order |-> "CANCEL",
     create_twap |-> "TWAP", cancel_twap |-> "CANCEL_TWAP"]

\* The queue a call is meant for: the one of the given account type, the
\* primary one when none is given.
MeantQueue(c) == IF c.account_type = "None" THEN _okx_account_type ELSE c.account_type

\* The step is a helper call that returned.
HelperReturned ==
    /\ ems_built
    /\ <<_order_submit_queues, helper_call, next_uuid>>' #
          <<_order_submit_queues, helper_call, next_uuid>>
    /\ helper_call'.raised = "none"

\* C14: a strategy helper (create_order, cancel_order, create_twap,
\* cancel_twap) that returns has appended exactly one OrderSubmit of its own
\* submit type to exactly one queue, the one of the given account type or the
\* primary one when none is given, has left every other queue as it was, and
\* returns the uuid that submit carries, which for a cancel is the uuid it
\* was given.
C14_HelperEnqueuesExactlyOne ==
    [][HelperReturned =>
          LET c == helper_call'
              k == MeantQueue(c)
          IN /\ DOMAIN _order_submit_queues' = DOMAIN _order_submit_queues
             /\ k \in DOMAIN _order_submit_queues
             /\ Len(_order_submit_queues'[k]) = Len(_order_submit_queues[k]) + 1
             /\ SubSeq(_order_submit_queues'[k], 1, Len(_order_submit_queues[k]))
                   = _order_submit_queues[k]
             /\ \A o \in DOMAIN _order_submit_queues \ {k} :
                   _order_submit_queues'[o] = _order_submit_queues[o]
             /\ LET order == _order_submit_queues'[k][Len(_order_submit_queues'[k])]
                IN /\ order.submit_type = HelperSubmitType[c.helper]
                   /\ c.returned = order.uuid
                   /\ c.helper \in {"cancel_order", "cancel_twap"}
                         => c.returned = c.uuid
                   /\ c.helper = "create_twap" => c.returned.prefix = "ALGO-"
    ]_vars

\* A cancel given an account type other than the primary one has been queued
\* behind an earlier submit on that queue, the primary queue still empty.
C14_Witness ==
    /\ helper_call.helper = "cancel_order"
    /\ helper_call.raised = "none"
    /\ helper_call.account_type = "LIVE"
    /\ _okx_account_type = "DEMO"
    /\ Len(_order_submit_queues["LIVE"]) = 2
    /\ _order_submit_queues["LIVE"][2] = [submit_type |-> "CANCEL", uuid |-> helper_call.uuid]
    /\ _order_submit_queues["DEMO"] = <<>>

ExpectedPrimary ==
    IF "DEMO" \in _private_connectors THEN "DEMO"
    ELSE IF "AWS" \in _private_connectors THEN "AWS"
    ELSE IF "LIVE" \in _private_connectors THEN "LIVE"
    ELSE "None"

\* C15: once the EMS is built, its primary account type is the first of
\* DEMO, AWS, LIVE that has a private connector, for every set of connectors
\* with at least one OKX account type; and a submit made without an account
\* type lands on the queue of that account type.
C15_PrimaryAccountTypeByPriority ==
    /\ [](ems_built /\ _private_connectors \cap OkxAccountType # {}
             => /\ _okx_account_type = ExpectedPrimary
                /\ _okx_account_type \in DOMAIN _order_submit_queues)
    /\ [][HelperReturned /\ helper_call'.account_type = "None"
             => /\ ExpectedPrimary \in DOMAIN _order_submit_queues
                /\ Len(_order_submit_queues'[ExpectedPrimary])
                      = Len(_order_submit_queues[ExpectedPrimary]) + 1]_vars

\* Connectors for AWS, LIVE and another venue: the primary is AWS and a
\* submit without an account type is on its queue.
C15_Witness ==
    /\ _private_connectors = {"AWS", "LIVE", "BINANCE_SPOT"}
    /\ _okx_account_type = "AWS"
    /\ helper_call.helper = "create_order"
    /\ helper_call.account_type = "None"
    /\ helper_call.raised = "none"
    /\ Len(_order_submit_queues["AWS"]) = 1
    /\ _order_submit_queues["LIVE"] = <<>>


\* C36: a submit aimed at an account type without a submission queue (no
\* private connector of that account type, or no account type given while
\* the primary account type is unset) fails with an error at the call and
\* enqueues nothing: every queue is as it was before the call.
C36_SubmitWithoutQueueFails ==
    /\ []((ems_built /\ helper_call # NoHelperCall
              /\ MeantQueue(helper_call) \notin _private_connectors \cap OkxAccountType)
            => /\ helper_call.raised = "KeyError"
               /\ helper_call.returned = NoUuid)
    /\ []((ems_built /\ _private_connectors \cap OkxAccountType = {})
            => /\ _okx_account_type = "None"
               /\ QueuedSubmits = 0)
    /\ [][(ems_built /\ helper_call'.raised = "KeyError")
            => UNCHANGED _order_submit_queues]_vars

\* With a DEMO connector only and one submit queued, a create_order aimed at
\* LIVE raised and the queues hold the one earlier submit.
C36_Witness ==
    /\ _private_connectors = {"DEMO"}
    /\ helper_call.helper = "create_order"
    /\ helper_call.account_type = "LIVE"
    /\ helper_call.raised = "KeyError"
    /\ Len(_order_submit_queues["DEMO"]) = 1
    /\ QueuedSubmits = 1

\* ------------------------------------------------------------ claims C16, C17
\* C16: the REST client maps every response by its HTTP status: raise_error
\* raises ClientError with the status, the parsed body and the headers for a
\* status in 400..499, ServerError for a status of 500 and above, and nothing
\* below 400; and a _fetch ends by returning the raw body or by one of these
\* two errors (or by the transport's own error), so that no error status
\* yields a returned value.
C16_StatusMapsToError ==
    /\ raised # NoRaise =>
          /\ (400 <= raised.status /\ raised.status < 500) =>
                raised.error = [exc |-> "ClientError", status |-> raised.status,
                                message |-> "parsed", headers |-> "headers"]
          /\ raised.status >= 500 => raised.error.exc = "ServerError"
          /\ raised.status < 400 => raised.error = NoError
    /\ fetch.outcome \in {"none", "raw", "ClientError", "ServerError",
                          "aiohttp.ClientError", "TimeoutError"}

OpenSessions == {i \in DOMAIN sessions : sessions[i] = "open"}

\* C17: no session exists before the first request; a request made without a
\* session creates a fresh one and a request made with one keeps it; only a
\* request creates a session; at most one session is open at any time; and
\* the session held is never given up or replaced without having been closed.
C17_SessionLazyAndShared ==
    /\ [](fetch = NoFetch => sessions = <<>> /\ _session = 0)
    /\ [](Cardinality(OpenSessions) <= 1)
    /\ [][fetch' # fetch /\ _session = 0
             => /\ sessions' = Append(sessions, "open")
                /\ _session' = Len(sessions')]_vars
    /\ [][fetch' # fetch /\ _session # 0
             => /\ sessions' = sessions
                /\ _session' = _session]_vars
    /\ [][Len(sessions') # Len(sessions) => fetch'.created /\ fetch'.session = _session']_vars
    /\ [][_session' # _session /\ _session # 0 => sessions'[_session] = "closed"]_vars

\* After close_session a request created the second session and a later
\* request found it in place.
C17_Witness ==
    /\ sessions = <<"closed", "open">>
    /\ _session = 2
    /\ fetch = [created |-> FALSE, session |-> 2, outcome |-> fetch.outcome]
    /\ close_pc = "idle"

\* ------------------------------------------------------------------ claim C20
\* Stablecoins the venues have quoted and margined contracts in.
Stablecoins == {"USDT", "USDC", "BUSD"}

\* C20: InstrumentId.from_str classifies every well-formed symbol by the part
\* before the dot: no hyphen gives SPOT, a -PERP suffix on a stablecoin-quoted
\* pair gives LINEAR, a dated suffix on a USD-quoted pair gives INVERSE; the
\* exchange is the venue after the dot and the symbol is kept as given.
C20_FromStrClassifies ==
    instrument_id # NoInstrumentId =>
        /\ instrument_id.symbol = symbol_of(symbol_parts)
        /\ instrument_id.exchange = ExchangeType[symbol_parts.venue]
        /\ symbol_parts.suffix = "" => instrument_id.type = "SPOT"
        /\ (symbol_parts.suffix = "PERP" /\ symbol_parts.quote \in Stablecoins)
              => instrument_id.type = "LINEAR"
        /\ (symbol_parts.suffix = "241227" /\ symbol_parts.quote = "USD")
              => instrument_id.type = "INVERSE"

\* ------------------------------------------------------------------ claim C12
\* What frame k is to publish: one message per data item that is reached, in
\* the order of the items.
PublishedItems(msg) ==
    IF ~msg.instId_known THEN {}
    ELSE {i \in DOMAIN msg.data : \A j \in 1..i : msg.data[j] = "ok"}

\* C12: the frames of a connection are processed in arrival order and each
\* runs to completion: the bus holds, for the frames delivered so far and for
\* no other, every publication of frame k before any of frame k+1, and the
\* publications of one frame in the order of its data items, none missing and
\* none twice; a step that publishes delivers the one oldest undelivered frame.
C12_FramesInOrderToCompletion ==
    /\ [](/\ \A a, b \in DOMAIN bus :
                a < b => \/ bus[a].frame < bus[b].frame
                         \/ bus[a].frame = bus[b].frame /\ bus[a].item < bus[b].item
          /\ \A a \in DOMAIN bus :
                /\ bus[a].frame \in 1..ws_delivered
                /\ bus[a].item \in PublishedItems(ws_frames[bus[a].frame])
                /\ bus[a].topic = IF ws_frames[bus[a].frame].channel = "bbo-tbt"
                                  THEN "bookl1" ELSE "trade"
          /\ \A k \in 1..ws_delivered : \A i \in PublishedItems(ws_frames[k]) :
                \E a \in DOMAIN bus : bus[a].frame = k /\ bus[a].item = i)
    /\ [][bus' # bus => ws_delivered' = ws_delivered + 1]_vars
    /\ [][ws_delivered' # ws_delivered =>
             /\ ws_delivered' = ws_delivered + 1
             /\ SubSeq(bus', 1, Len(bus)) = bus]_vars

\* Two frames of two items each have been delivered and the bus holds their
\* four publications.
C12_Witness ==
    /\ ws_delivered = 2
    /\ ws_frames[1].channel = "bbo-tbt"
    /\ ws_frames[2].channel = "trades"
    /\ Len(bus) = 4
    /\ bus[2] = [frame |-> 1, item |-> 2, topic |-> "bookl1"]
    /\ bus[3] = [frame |-> 2, item |-> 1, topic |-> "trade"]

\* ------------------------------------------------------------------ claim C21
\* C21: after each batch, next_start is the start of the batch's first candle
\* plus 1, and a further request, with next_start as its start cursor, is
\* issued if and only if the batch held exactly limit candles and next_start
\* does not exceed end_time_ms.
C21_KlinesPagination ==
    kl_batch.seen =>
        /\ kl_batch.len > 0 => kl_batch.next_start_time = kl_batch.first_start + 1
        /\ kl_pc = "requesting" <=>
              /\ kl_batch.len = kl_limit
              /\ kl_batch.next_start_time <= kl_end_time_ms
        /\ kl_pc = "requesting" => kl_start_time = kl_batch.next_start_time

\* ------------------------------------------------------------------ claim C22
\* C22: after any number of calls of _init_core, one at least, each of the
\* nine endpoints has exactly one registered handler, the strategy's, and each
\* of the topics trade, bookl1 and kline exactly one subscription of the
\* strategy; no call raises a double-register error, and a repeated call
\* changes nothing on the bus.
C22_InitCoreRegistersOnce ==
    /\ [](init_core_calls > 0 =>
             /\ \A i \in DOMAIN StrategyEndpoints :
                   {e \in bus_endpoints : e.endpoint = StrategyEndpoints[i]}
                      = {[endpoint |-> StrategyEndpoints[i], owner |-> "strategy"]}
             /\ \A t \in Range(StrategyTopics) : bus_subscriptions[t] = 1
             /\ init_core_raised = "none"
             /\ _initialized)
    /\ [][init_core_calls > 0 =>
             UNCHANGED <<bus_endpoints, bus_subscriptions, bus_other_subscribers>>]_vars

\* _init_core has been called twice on a bus that held the OKX order endpoint
\* and another subscriber to trades.
C22_Witness ==
    /\ init_core_calls = 2
    /\ _initialized
    /\ [endpoint |-> "okx.order", owner |-> "oms"] \in bus_endpoints
    /\ [endpoint |-> "balance", owner |-> "strategy"] \in bus_endpoints
    /\ bus_other_subscribers = {"trade"}
    /\ bus_subscriptions["trade"] = 1

\* ------------------------------------------------------------ claims C23, C24
RECURSIVE SumSeq(_)
SumSeq(seq) == IF seq = <<>> THEN 0 ELSE Head(seq) + SumSeq(Tail(seq))

\* The slices of (amount, duration, wait) at a precision, as claimed: the
\* count is max(1, floor(duration / wait)); every slice but the last is the
\* largest multiple of the precision step whose count-fold is not above the
\* amount; the slices sum to the amount.
SlicedAsClaimed(amount, duration, wait, precision, slices) ==
    LET n == Len(slices) IN
    /\ n >= 1
    /\ n * wait <= duration \/ n = 1
    /\ (n + 1) * wait > duration
    /\ \A i \in 1..(n - 1) :
          /\ slices[i] = slices[1]
          /\ slices[i] % precision = 0
          /\ slices[i] * n <= amount
          /\ (slices[i] + precision) * n > amount
    /\ slices[n] >= (IF n > 1 THEN slices[1] ELSE 0)
    /\ SumSeq(slices) = amount

\* C23: for every TWAP submit (amount, duration, wait) the number of slices
\* is max(1, floor(duration / wait)), every slice but the last is
\* amount / slice_count rounded down to the amount precision, the last slice
\* carries the truncation residual as well, and the slices sum to the amount;
\* amount 0.3, duration 60, wait 3 at a precision of 0.001 gives 20 slices of
\* 0.015.
C23_TwapSlicesSumToAmount ==
    /\ algo.status # "none" =>
          SlicedAsClaimed(algo.amount, algo.duration, algo.wait, algo.precision,
                          algo.slices)
    /\ twap_slices(300, 60, 3, 1) = [i \in 1..20 |-> 15]

\* A submit whose amount does not divide: 5 units over 2 slices at a step of
\* 2 units gives slices of 2 and 3.
C23_Witness ==
    /\ algo.status = "RUNNING"
    /\ algo.amount = 5
    /\ algo.precision = 2
    /\ algo.slices = <<2, 3>>

\* C24: a CANCEL_TWAP for a RUNNING parent makes it CANCELING and leaves no
\* child open without a CANCEL; from then on no child CREATE is submitted for
\* the parent; the parent is CANCELED only when every child is terminal; it
\* never goes from CANCELING back to RUNNING, and a closed parent (FINISHED,
\* CANCELED, FAILED) never changes status.
C24_CancelTwapLifecycle ==
    /\ [](algo.status = "CANCELING" =>
             \A i \in DOMAIN algo_children : algo_children[i] # "OPEN")
    /\ [](algo.status = "CANCELED" =>
             \A i \in DOMAIN algo_children : algo_children[i] \in TerminalChild)
    /\ [][algo'.status = "CANCELING" /\ algo.status # "CANCELING" =>
             /\ algo.status = "RUNNING"
             /\ algo_event' = "CANCEL_TWAP"
             /\ Len(algo_children') = Len(algo_children)
             /\ \A i \in DOMAIN algo_children :
                   algo_children'[i] = IF algo_children[i] = "OPEN" THEN "CANCELING"
                                       ELSE algo_children[i]]_vars
    /\ [][algo.status \in {"CANCELING", "CANCELED", "FINISHED", "FAILED"} =>
             Len(algo_children') = Len(algo_children)]_vars
    /\ [][algo.status = "CANCELING" => algo'.status \in {"CANCELING", "CANCELED"}]_vars
    /\ [][algo'.status = "CANCELED" => algo.status \in {"CANCELING", "CANCELED"}]_vars
    /\ [][AlgoOrder_is_closed(algo.status) => algo'.status = algo.status]_vars

\* A parent of three slices was canceled after its second: the first child
\* had filled, the second was open and was canceled, the third never came.
C24_Witness ==
    /\ algo.status = "CANCELED"
    /\ Len(algo.slices) = 3
    /\ algo_children = <<"FILLED", "CANCELED">>
    /\ algo_event = "canceled"

Init == InitOrders /\ ConnAtRest /\ PosAtRest /\ WsAtRest /\ BalAtRest /\ EmsAtRest /\ ApiAtRest /\ InstAtRest /\ BusAtRest /\ KlAtRest /\ CoreAtRest /\ TwapAtRest /\ RegAtRest /\ PubAtRest /\ SupAtRest /\ UrlAtRest /\ PrivAtRest /\ KwAtRest

Next == NextOrders

Spec == Init /\ [][Next]_vars

\* The private connector's outgoing operations.
InitConnSpec == InitConn /\ OrdersAtRest /\ PosAtRest /\ WsAtRest /\ BalAtRest /\ EmsAtRest /\ ApiAtRest /\ InstAtRest /\ BusAtRest /\ KlAtRest /\ CoreAtRest /\ TwapAtRest /\ RegAtRest /\ PubAtRest /\ SupAtRest /\ UrlAtRest /\ PrivAtRest /\ KwAtRest

SpecConn == InitConnSpec /\ [][NextConn]_vars

\* Positions: the REST snapshot and the "positions" channel.
InitPosSpec == InitPos /\ OrdersAtRest /\ ConnAtRest /\ WsAtRest /\ BalAtRest /\ EmsAtRest /\ ApiAtRest /\ InstAtRest /\ BusAtRest /\ KlAtRest /\ CoreAtRest /\ TwapAtRest /\ RegAtRest /\ PubAtRest /\ SupAtRest /\ UrlAtRest /\ PrivAtRest /\ KwAtRest

SpecPos == InitPosSpec /\ [][NextPos]_vars

\* The WebSocket client.
InitWsSpec == InitWs /\ OrdersAtRest /\ ConnAtRest /\ PosAtRest /\ BalAtRest /\ EmsAtRest /\ ApiAtRest /\ InstAtRest /\ BusAtRest /\ KlAtRest /\ CoreAtRest /\ TwapAtRest /\ RegAtRest /\ PubAtRest /\ SupAtRest /\ UrlAtRest /\ PrivAtRest /\ KwAtRest

SpecWs == InitWsSpec /\ [][NextWs]_vars

\* The event loop runs every task that is ready, the limiter lets every waiter
\* through, and connection attempts eventually succeed.  Nothing is assumed
\* of the peer, the network or the callers of the client.
FairnessWs ==
    /\ WF_vars(SupervisorStep)
    /\ WF_vars(\E dead_send \in DeadSend : SubscribeSend(dead_send))
    /\ SF_vars(HandlerConnected)

FairSpecWs == SpecWs /\ FairnessWs

\* Balances: the REST snapshot and the "account" channel.
InitBalSpec == InitBal /\ OrdersAtRest /\ ConnAtRest /\ PosAtRest /\ WsAtRest /\ EmsAtRest /\ ApiAtRest /\ InstAtRest /\ BusAtRest /\ KlAtRest /\ CoreAtRest /\ TwapAtRest /\ RegAtRest /\ PubAtRest /\ SupAtRest /\ UrlAtRest /\ PrivAtRest /\ KwAtRest

SpecBal == InitBalSpec /\ [][NextBal]_vars

\* The OKX EMS and the strategy's submission helpers.
InitEmsSpec == InitEms /\ OrdersAtRest /\ ConnAtRest /\ PosAtRest /\ WsAtRest /\ BalAtRest /\ ApiAtRest /\ InstAtRest /\ BusAtRest /\ KlAtRest /\ CoreAtRest /\ TwapAtRest /\ RegAtRest /\ PubAtRest /\ SupAtRest /\ UrlAtRest /\ PrivAtRest /\ KwAtRest

SpecEms == InitEmsSpec /\ [][NextEms]_vars

\* The REST API client: its session and its error mapping.
InitApiSpec == InitApi /\ OrdersAtRest /\ ConnAtRest /\ PosAtRest /\ WsAtRest /\ BalAtRest /\ EmsAtRest /\ InstAtRest /\ BusAtRest /\ KlAtRest /\ CoreAtRest /\ TwapAtRest /\ RegAtRest /\ PubAtRest /\ SupAtRest /\ UrlAtRest /\ PrivAtRest /\ KwAtRest

SpecApi == InitApiSpec /\ [][NextApi]_vars

\* InstrumentId.from_str over the symbols of the grammar.
InitInstSpec == InitInst /\ OrdersAtRest /\ ConnAtRest /\ PosAtRest /\ WsAtRest /\ BalAtRest /\ EmsAtRest /\ ApiAtRest /\ BusAtRest /\ KlAtRest /\ CoreAtRest /\ TwapAtRest /\ RegAtRest /\ PubAtRest /\ SupAtRest /\ UrlAtRest /\ PrivAtRest /\ KwAtRest

SpecInst == InitInstSpec /\ [][NextInst]_vars

\* The OKX public connector's market data frames.
InitBusSpec == InitBus /\ OrdersAtRest /\ ConnAtRest /\ PosAtRest /\ WsAtRest /\ BalAtRest /\ EmsAtRest /\ ApiAtRest /\ InstAtRest /\ KlAtRest /\ CoreAtRest /\ TwapAtRest /\ RegAtRest /\ PubAtRest /\ SupAtRest /\ UrlAtRest /\ PrivAtRest /\ KwAtRest

SpecBus == InitBusSpec /\ [][NextBus]_vars

\* The public connector's paginated request of historical candles.
InitKlSpec == InitKl /\ OrdersAtRest /\ ConnAtRest /\ PosAtRest /\ WsAtRest /\ BalAtRest /\ EmsAtRest /\ ApiAtRest /\ InstAtRest /\ BusAtRest /\ CoreAtRest /\ TwapAtRest /\ RegAtRest /\ PubAtRest /\ SupAtRest /\ UrlAtRest /\ PrivAtRest /\ KwAtRest

SpecKl == InitKlSpec /\ [][NextKl]_vars

\* The strategy's registration on the message bus.
InitCoreSpec == InitCore /\ OrdersAtRest /\ ConnAtRest /\ PosAtRest /\ WsAtRest /\ BalAtRest /\ EmsAtRest /\ ApiAtRest /\ InstAtRest /\ BusAtRest /\ KlAtRest /\ TwapAtRest /\ RegAtRest /\ PubAtRest /\ SupAtRest /\ UrlAtRest /\ PrivAtRest /\ KwAtRest

SpecCore == InitCoreSpec /\ [][NextCore]_vars

\* The TWAP engine: one parent order and its children.
InitTwapSpec == InitTwap /\ OrdersAtRest /\ ConnAtRest /\ PosAtRest /\ WsAtRest /\ BalAtRest /\ EmsAtRest /\ ApiAtRest /\ InstAtRest /\ BusAtRest /\ KlAtRest /\ CoreAtRest /\ RegAtRest /\ PubAtRest /\ SupAtRest /\ UrlAtRest /\ PrivAtRest /\ KwAtRest

SpecTwap == InitTwapSpec /\ [][NextTwap]_vars

\* ------------------------------------------------------------------ claim C26
\* The registry maps no two uuids to one venue id and no two venue ids to
\* one uuid, and its two directions agree.
OneToOne ==
    /\ \A u \in RegUuids : uuid_to_order_id[u] # 0 =>
            order_id_to_uuid[uuid_to_order_id[u]] = u
    /\ \A v \in VenueIds : order_id_to_uuid[v] # 0 =>
            uuid_to_order_id[order_id_to_uuid[v]] = v

\* C26: an order update whose venue id is not registered yet waits; when the
\* POST response registers the id while it waits, the update is matched to
\* the uuid of the submit that created the order, and a new local uuid is
\* synthesized only when the wait timed out with the id still unregistered.
\* In every interleaving the registry is one-to-one and a matched update
\* carries the uuid of the submit that created its venue order.
C26_LookupWaitsForRegistration ==
    /\ [](OneToOne
          /\ \A v \in VenueIds :
                /\ reg_lookup[v].pc = "matched" => venue_owner[v] = reg_lookup[v].uuid
                /\ reg_lookup[v].pc = "synthesized" => reg_lookup[v].uuid \notin RegUuids)
    /\ [][\A v \in VenueIds :
            /\ (reg_lookup[v].pc = "waiting" /\ order_id_to_uuid[v] = 0
                    /\ order_id_to_uuid'[v] # 0) =>
                  reg_lookup'[v] = [pc |-> "matched", uuid |-> venue_owner[v]]
            /\ (reg_lookup[v].pc # "synthesized" /\ reg_lookup'[v].pc = "synthesized") =>
                  (reg_lookup[v].pc = "waiting" /\ order_id_to_uuid'[v] = 0)
            /\ (reg_lookup[v].pc # "waiting" /\ reg_lookup'[v].pc = "waiting") =>
                  order_id_to_uuid[v] = 0]_vars

\* C26 witness: the update of venue order 1 came before the POST response of
\* submit 1 and was matched to it; the update of venue order 2 timed out
\* before submit 2 was registered and got a synthesized uuid.
C26_Witness ==
    /\ venue_owner[1] = 1 /\ venue_owner[2] = 2
    /\ reg_lookup[1] = [pc |-> "matched", uuid |-> 1]
    /\ reg_lookup[2].pc = "synthesized"
    /\ reg_post[2] = "registered"

\* The order registry: WS order updates racing the POST responses.
InitRegSpec == InitReg /\ OrdersAtRest /\ ConnAtRest /\ PosAtRest /\ WsAtRest /\ BalAtRest /\ EmsAtRest /\ ApiAtRest /\ InstAtRest /\ BusAtRest /\ KlAtRest /\ CoreAtRest /\ TwapAtRest /\ PubAtRest /\ SupAtRest /\ UrlAtRest /\ PrivAtRest /\ KwAtRest

SpecReg == InitRegSpec /\ [][NextReg]_vars

\* ------------------------------------------------------------------ claim C27
\* The topic of a channel on a stream, "none" when the stream's handler has
\* no branch for it: bbo-tbt and trades are handled on the public stream,
\* the candle channels on both.
TopicOf(stream, channel) ==
    IF channel = <<"bbo-tbt">> /\ stream = "public" THEN "bookl1"
    ELSE IF channel = <<"trades">> /\ stream = "public" THEN "trade"
    ELSE IF channel[1] = "candle" THEN "kline"
    ELSE "none"

WellFormed(msg) ==
    msg.instId_known /\ \A i \in DOMAIN msg.data : msg.data[i] = "ok"

InitPubSpec == InitPub /\ OrdersAtRest /\ ConnAtRest /\ PosAtRest /\ WsAtRest /\ BalAtRest /\ EmsAtRest /\ ApiAtRest /\ InstAtRest /\ BusAtRest /\ KlAtRest /\ CoreAtRest /\ TwapAtRest /\ RegAtRest /\ SupAtRest /\ UrlAtRest /\ PrivAtRest /\ KwAtRest

SpecPub == InitPubSpec /\ [][NextPub]_vars

\* ------------------------------------------------------------------ claim C29
\* C29: for every interleaving of connect() and disconnect() calls with the
\* supervisor's reconnect cycle there is at most one supervisor task and at
\* most one open transport; a connect() made while the supervisor sleeps
\* starts no second supervisor.
C29_OneSupervisorOneTransport ==
    /\ Len(sup_tasks) <= 1
    /\ Cardinality(sup_open) <= 1

\* C31: after disconnect() was called on a connected client, the client
\* stays disconnected until connect() is called again: no transport is held
\* and no connection is open in the meantime.
C31_StaysDisconnected ==
    sup_closed_by_user => (~sup_connected /\ sup_open = {})

\* WSClient: connect() and disconnect() calls against the supervisor tasks.
InitSupSpec == InitSup /\ OrdersAtRest /\ ConnAtRest /\ PosAtRest /\ WsAtRest /\ BalAtRest /\ EmsAtRest /\ ApiAtRest /\ InstAtRest /\ BusAtRest /\ KlAtRest /\ CoreAtRest /\ TwapAtRest /\ RegAtRest /\ PubAtRest /\ UrlAtRest /\ PrivAtRest /\ KwAtRest

SpecSup == InitSupSpec /\ [][NextSup]_vars

\* ------------------------------------------------------------------ claim C33
\* C33: a client constructed with testnet = True sends no request to a
\* production base URL: for every account type _get_base_url gives a testnet
\* URL; and for every account type, the *_TESTNET members included, it gives
\* a URL, never None.
C33_TestnetNeverProduction ==
    \A i \in DOMAIN url_requests :
        /\ url_requests[i].base_url # NoUrl
        /\ url_testnet => url_requests[i].base_url.net = "testnet"

\* The Binance REST client's choice of base URL.
InitUrlSpec == InitUrl /\ SupAtRest /\ OrdersAtRest /\ ConnAtRest /\ PosAtRest /\ WsAtRest /\ BalAtRest /\ EmsAtRest /\ ApiAtRest /\ InstAtRest /\ BusAtRest /\ KlAtRest /\ CoreAtRest /\ TwapAtRest /\ RegAtRest /\ PubAtRest /\ PrivAtRest /\ KwAtRest

SpecUrl == InitUrlSpec /\ [][NextUrl]_vars

\* ------------------------------------------------------------------ claim C35
\* C35: a frame of the orders, positions or account channel is applied
\* all-or-nothing: when the handling of any of its items fails, nothing of
\* the frame has reached the cache or the bus, the items before the failing
\* one included.
C35_PrivateFrameAllOrNothing ==
    \A k \in DOMAIN priv_frames :
        (\E i \in DOMAIN priv_frames[k].data : priv_frames[k].data[i] # "ok")
            => \A a \in DOMAIN priv_applied : priv_applied[a].frame # k

\* The private connector's channel frames.
InitPrivSpec == InitPriv /\ UrlAtRest /\ SupAtRest /\ OrdersAtRest /\ ConnAtRest /\ PosAtRest /\ WsAtRest /\ BalAtRest /\ EmsAtRest /\ ApiAtRest /\ InstAtRest /\ BusAtRest /\ KlAtRest /\ CoreAtRest /\ TwapAtRest /\ RegAtRest /\ PubAtRest /\ KwAtRest

SpecPriv == InitPrivSpec /\ [][NextPriv]_vars


InitKwSpec == InitKw /\ OrdersAtRest /\ ConnAtRest /\ PosAtRest /\ WsAtRest /\ BalAtRest /\ EmsAtRest /\ ApiAtRest /\ InstAtRest /\ BusAtRest /\ KlAtRest /\ CoreAtRest /\ TwapAtRest /\ RegAtRest /\ PubAtRest /\ SupAtRest /\ UrlAtRest /\ PrivAtRest

SpecKw == InitKwSpec /\ [][NextKw]_vars

\* The request that is out is answered: the await of the REST call returns.
FairSpecKw == SpecKw /\ WF_vars(\E klines \in KwPages : get_api_v5_market_candles(klines))


\* ------------------------------------------------------------------ claim C37
\* C37: against a venue that holds finitely many candles and answers each
\* request with at most limit candles, all starting after the request's start
\* cursor, _request_klines returns: every call that has a request out comes
\* to its return, the start cursor of each further request is greater than
\* that of the request before, and an empty batch ends the loop at once.
C37_RequestKlinesTerminates ==
    /\ (kw_pc = "requesting") ~> (kw_pc = "returned")
    /\ [](/\ Len(kw_klines) <= kw_limit
          /\ \A i \in DOMAIN kw_klines : kw_klines[i] \in kw_venue.candles)
    /\ [][(kw_pc = "requesting" /\ kw_pc' = "requesting")
            => /\ kw_start_time' > kw_start_time
               /\ \A i \in DOMAIN kw_klines' : kw_klines'[i] > kw_start_time]_vars
    /\ [][(kw_pc = "requesting" /\ kw_klines' = <<>>) => kw_pc' = "returned"]_vars

\* Three requests of one candle each moved the cursor from None to 1, 3 and
\* 5; the fourth was answered with an empty batch and the call returned.
C37_Witness ==
    /\ kw_pc = "returned"
    /\ kw_limit = 1
    /\ kw_first_start_time = 0 - 1
    /\ kw_all_klines = <<0, 2, 4>>
    /\ kw_start_time = 5
    /\ kw_klines = <<>>


\* ------------------------------------------------------------------ claim C38
\* The candles of the requested window: those the venue holds after the
\* call's start_time and, with an end_time, before it.
Window == Eligible(kw_venue.candles, kw_first_start_time, kw_end_time)

\* How many times the candle c is in the list q.
Occurrences(q, c) == Cardinality({i \in DOMAIN q : q[i] = c})

\* C38: when the window holds more candles than limit and the venue fills
\* each page with the limit oldest or the limit newest candles asked for,
\* oldest-first or newest-first, the returned list holds every candle of the
\* window exactly once.
C38_EveryCandleExactlyOnce ==
    (/\ kw_pc = "returned"
     /\ kw_venue.pick # "any"
     /\ Cardinality(Window) > kw_limit)
        => \A c \in Window : Occurrences(kw_all_klines, c) = 1

====
